---- MODULE Spec2Model ----
(***************************************************************************)
(* Model of the unified-diff engine of show_differences.py:                *)
(*   apply_patch_to_content                  (reconstruct, one patch)      *)
(*   generate_interleaved_lines_for_all_prs  (merge, all patches)          *)
(*                                                                         *)
(* A Python str is a sequence of one-character strings; a multi-line str   *)
(* holds "\n" characters and is cut by SplitLines as str.splitlines does.  *)
(* A Python list is a sequence, a dict with integer keys a function.       *)
(***************************************************************************)
EXTENDS Integers, Sequences, FiniteSets, TLC

(***************************************************************************)
(* Bounds of the explored inputs.                                          *)
(***************************************************************************)
MaxBaseLen == 3
MaxPatchLines == 3
MaxMergeLines == 3
MaxCalls == 3
MaxPages == 3
MaxFiles == 3

(***************************************************************************)
(* Python values.                                                          *)
(***************************************************************************)
None == <<"None">>
NoneList == << <<"None">> >>
NoneDict == [number |-> None, title |-> None]
NL == "\n"
Digits == {"0", "1", "2", "3", "4", "5", "6", "7", "8", "9"}

DigitVal(c) ==
    CASE c = "0" -> 0 [] c = "1" -> 1 [] c = "2" -> 2 [] c = "3" -> 3
      [] c = "4" -> 4 [] c = "5" -> 5 [] c = "6" -> 6 [] c = "7" -> 7
      [] c = "8" -> 8 [] c = "9" -> 9

\* bool(x) of a str-or-None value: None and "" are falsy
Truthy(s) == s # None /\ s # <<>>

\* str.startswith(prefix)
StartsWith(s, prefix) ==
    /\ Len(s) >= Len(prefix)
    /\ SubSeq(s, 1, Len(prefix)) = prefix

\* str.startswith((p1, p2, ...))
StartsWithAny(s, prefixes) == \E p \in prefixes : StartsWith(s, p)

\* s[1:]
Tail1(s) == IF s = <<>> THEN <<>> ELSE Tail(s)

RECURSIVE SplitFrom(_, _, _)
SplitFrom(s, i, cur) ==
    IF i > Len(s)
    THEN IF cur = <<>> THEN <<>> ELSE <<cur>>
    ELSE IF s[i] = NL
         THEN <<cur>> \o SplitFrom(s, i + 1, <<>>)
         ELSE SplitFrom(s, i + 1, Append(cur, s[i]))

\* str.splitlines(), for "\n" line ends
SplitLines(s) == SplitFrom(s, 1, <<>>)

RECURSIVE JoinLines(_)
\* "\n".join(lines)
JoinLines(lines) ==
    IF lines = <<>> THEN <<>>
    ELSE IF Len(lines) = 1 THEN lines[1]
    ELSE lines[1] \o <<NL>> \o JoinLines(Tail(lines))

EscapeChar(c) ==
    CASE c = "&" -> <<"&", "a", "m", "p", ";">>
      [] c = "<" -> <<"&", "l", "t", ";">>
      [] c = ">" -> <<"&", "g", "t", ";">>
      [] c = "\"" -> <<"&", "q", "u", "o", "t", ";">>
      [] c = "'" -> <<"&", "#", "x", "2", "7", ";">>
      [] OTHER -> <<c>>

RECURSIVE HtmlEscape(_)
\* html.escape(s)
HtmlEscape(s) ==
    IF s = <<>> THEN <<>> ELSE EscapeChar(Head(s)) \o HtmlEscape(Tail(s))

(***************************************************************************)
(* re.search(r"@@ -(\d+)(,(\d+))? \+(\d+)(,(\d+))? @@", line)              *)
(***************************************************************************)
LitAt(s, p, lit) ==
    /\ p + Len(lit) - 1 <= Len(s)
    /\ SubSeq(s, p, p + Len(lit) - 1) = lit

RECURSIVE DigitsEnd(_, _)
\* the position after the longest run of digits that starts at p
DigitsEnd(s, p) ==
    IF p <= Len(s) /\ s[p] \in Digits THEN DigitsEnd(s, p + 1) ELSE p

\* the position after "(\d+)(,(\d+))?" matched at p, or 0 when \d+ fails
NumbersEnd(s, p) ==
    LET d == DigitsEnd(s, p)
    IN  IF d = p THEN 0
        ELSE IF LitAt(s, d, <<",">>) /\ DigitsEnd(s, d + 1) > d + 1
             THEN DigitsEnd(s, d + 1)
             ELSE d

HeaderMatchAt(s, p) ==
    /\ LitAt(s, p, <<"@", "@", " ", "-">>)
    /\ LET e1 == NumbersEnd(s, p + 4)
       IN  /\ e1 # 0
           /\ LitAt(s, e1, <<" ", "+">>)
           /\ LET e2 == NumbersEnd(s, e1 + 2)
              IN  /\ e2 # 0
                  /\ LitAt(s, e2, <<" ", "@", "@">>)

HeaderMatches(s) == \E p \in 1..Len(s) : HeaderMatchAt(s, p)

RECURSIVE ParseInt(_, _)
\* int() of a run of decimal digits, acc the value read so far
ParseInt(ds, acc) ==
    IF ds = <<>> THEN acc ELSE ParseInt(Tail(ds), 10 * acc + DigitVal(Head(ds)))

\* int(match.group(1)) of the leftmost match
HeaderOldStart(s) ==
    LET p == CHOOSE q \in 1..Len(s) :
                 /\ HeaderMatchAt(s, q)
                 /\ \A r \in 1..(q - 1) : ~HeaderMatchAt(s, r)
    IN  ParseInt(SubSeq(s, p + 4, DigitsEnd(s, p + 4) - 1), 0)

(***************************************************************************)
(* The explored inputs.  Lines are written as character sequences.         *)
(***************************************************************************)
HdrOld0 == <<"@", "@", " ", "-", "0", ",", "0", " ", "+", "1", ",", "2", " ", "@", "@">>
HdrOld1 == <<"@", "@", " ", "-", "1", ",", "2", " ", "+", "1", ",", "1", " ", "@", "@">>
HdrOld2 == <<"@", "@", " ", "-", "2", ",", "1", " ", "+", "2", ",", "2", " ", "@", "@">>
HdrBad == <<"@", "@", " ", "-", "x", " ", "+", "1", " ", "@", "@">>
LineAddX == <<"+", "x">>
LineDelA == <<"-", "a">>
LineCtxB == <<" ", "b">>
LineNoNewline == <<"\\", " ", "N", "o", " ", "n", "e", "w", "l", "i", "n", "e">>
LineDiff == <<"d", "i", "f", "f">>

HeaderLines == {HdrOld0, HdrOld1, HdrOld2, HdrBad}
BodyLines == {LineAddX, LineDelA, LineCtxB, LineNoNewline, LineDiff}
PatchLines == HeaderLines \cup BodyLines

SeqsUpTo(S, n) == UNION {[1..k -> S] : k \in 0..n}

\* the base files: the first n of these lines
BaseLinesAll == << <<"a">>, <<"b">>, <<"c">>, <<"d">>, <<"e">> >>
BaseX == << <<"x">> >>
BaseStrings(maxlen) ==
    {JoinLines(SubSeq(BaseLinesAll, 1, n)) : n \in 0..maxlen} \cup {None}

\* the patches of apply_patch_to_content: any lines, and the two of section 8
PatchRoundTrip == <<HdrOld2, LineCtxB, LineAddX>>
PatchRemoval == <<HdrOld1, LineDelA, LineCtxB>>
\* two hunks out of order, a hunk with a bad header before a good one
PatchOutOfOrder == <<HdrOld2, LineCtxB, LineAddX, HdrOld1, LineDelA>>
PatchBadThenGood == <<HdrBad, LineAddX, LineCtxB, HdrOld1, LineCtxB, LineAddX>>
\* a hunk with an Added, a Removed and a "\ No newline" line
PatchAllKinds == <<HdrOld1, LineAddX, LineDelA, LineNoNewline>>
PatchStrings(maxlen) ==
    {JoinLines(p) : p \in SeqsUpTo(PatchLines, maxlen)
                        \cup {PatchRoundTrip, PatchRemoval, PatchOutOfOrder,
                              PatchBadThenGood, PatchAllKinds}}
        \cup {None}
PrDetails7 == [number |-> <<"7">>, title |-> <<"T", "<">>]
Annotations == {NoneDict, PrDetails7}

\* the patches of a source of the merge that count n >= 1 lines: lines that open
\* with a header, and for n = 1 also the two values that mean "no patch"
SourcePatches(n) ==
    {JoinLines(<<h>> \o r) : h \in HeaderLines, r \in [1..(n - 1) -> PatchLines]}
        \cup (IF n = 1 THEN {None, <<>>} ELSE {})
PrIds == {<<"2">>, <<"1", "0">>}
PrData(patch) == [patch |-> patch, title |-> <<"T", "<">>]
\* relevant_prs_data, a dict in insertion order: the sequence of its items;
\* the patches of a mapping have maxlen lines in all
Mappings(maxlen) ==
    {<<>>}
        \cup UNION {{<< <<i, PrData(q)>> >> : i \in PrIds, q \in SourcePatches(k)}
                    : k \in 1..maxlen}
        \cup UNION {{<< <<ij[1], PrData(q)>>, <<ij[2], PrData(r)>> >> :
                        q \in SourcePatches(kl[1]), r \in SourcePatches(kl[2])}
                    : ij \in {p \in PrIds \X PrIds : p[1] # p[2]},
                      kl \in {p \in (1..maxlen) \X (1..maxlen) : p[1] + p[2] <= maxlen}}
\* the two-source scenario of section 8, in both insertion orders
LineAddP == <<"+", "p">>
LineAddQ == <<"+", "q">>
Source1P == << <<"1">>, PrData(JoinLines(<<HdrOld0, LineAddP>>)) >>
Source2Q == << <<"2">>, PrData(JoinLines(<<HdrOld0, LineAddQ>>)) >>
\* the sources "2" and "10" insert at one key, before and inside the base
TieAt(header) ==
    LET s2 == << <<"2">>, PrData(JoinLines(<<header, LineAddX>>)) >>
        s10 == << <<"1", "0">>, PrData(JoinLines(<<header, LineAddX>>)) >>
    IN  {<<s2, s10>>, <<s10, s2>>}
\* one source with two hunks: a line is consumed in the first
SourceTwoHunks ==
    << <<"2">>, PrData(JoinLines(<<HdrOld1, LineCtxB, LineAddX, HdrOld2, LineAddX>>)) >>
\* a source that inserts after the first and after the second line
SourceTwoKeys ==
    << <<"2">>, PrData(JoinLines(<<HdrOld1, LineAddX, LineCtxB, LineAddX>>)) >>
\* the source "10", put in first, and the source "2" with two hunks fill one key
SourcesOneKey ==
    << << <<"1", "0">>, PrData(JoinLines(<<HdrOld2, LineAddX>>)) >>,
       << <<"2">>, PrData(JoinLines(<<HdrOld1, LineCtxB, LineAddX,
                                      HdrOld2, LineAddP, LineAddQ>>)) >> >>
ScenarioMappings ==
    {<<Source1P, Source2Q>>, <<Source2Q, Source1P>>, <<SourceTwoHunks>>,
     <<Source1P, SourceTwoKeys>>, SourcesOneKey,
     << <<<<"2">>, PrData(JoinLines(PatchBadThenGood))>> >>}
        \cup TieAt(HdrOld0) \cup TieAt(HdrOld1)
\* mappings with a key that is not a decimal number, alone and beside the key "2"
PrIdNotNumber == <<"x">>
OpaqueIdMappings ==
    LET sx == <<PrIdNotNumber, PrData(JoinLines(<<HdrOld1, LineAddX>>))>>
        s2 == << <<"2">>, PrData(JoinLines(<<HdrOld1, LineAddX>>)) >>
    IN  {<<sx>>, <<sx, s2>>, <<s2, sx>>}
\* sources that are walked beside sources whose patch is None, "" or has no "@@" line
SourceMappings ==
    LET SourceP1 == << <<"1">>, PrData(JoinLines(<<HdrOld0, LineAddP>>)) >>
        SourceQ10 == << <<"1", "0">>, PrData(JoinLines(<<HdrOld0, LineAddQ>>)) >>
        SourceAllKinds ==
            << <<"2">>, PrData(JoinLines(PatchRemoval \o <<LineAddX, LineNoNewline>>)) >>
        SourceBadThenGood == << <<"2">>, PrData(JoinLines(PatchBadThenGood)) >>
        SourceNoPatch(id) == <<id, PrData(None)>>
        SourceEmptyPatch(id) == <<id, PrData(<<>>)>>
        SourceNoHunk(id) == <<id, PrData(JoinLines(<<LineAddX, LineDiff>>))>>
    IN  {<<>>,
         <<SourceNoPatch(<<"3">>), SourceEmptyPatch(<<"4">>), SourceNoHunk(<<"5">>)>>,
         <<SourceQ10, SourceP1>>,
         <<SourceQ10, SourceNoHunk(<<"2">>), SourceP1>>,
         <<SourceEmptyPatch(<<"3">>), SourceP1, SourceQ10>>,
         <<SourceAllKinds>>,
         <<SourceNoPatch(<<"1", "0">>), SourceAllKinds>>,
         <<SourceBadThenGood>>,
         <<SourceNoPatch(PrIdNotNumber), SourceBadThenGood>>}
MergeBaseStrings(maxlen) == BaseStrings(maxlen) \cup {JoinLines(BaseX)}

VARIABLES
    fn,                          \* the function being run
    pc,                          \* the position in it
    base_content_str,            \* argument
    patch_string,                \* argument of apply_patch_to_content
    pr_details_for_annotation,   \* argument of apply_patch_to_content
    relevant_prs_data,           \* argument of generate_interleaved_lines_for_all_prs
    base_lines,
    hunk_sections,
    hunk_i,                      \* index of the hunk the loop is at (1-based)
    body_i,                      \* index of the body line the loop is at
    current_base_line_idx,
    patched_lines_html_result,
    reads,                       \* the indices base_lines was subscripted with
    sorted_pr_numbers,
    pr_i,                        \* index of the source the loop is at
    additions_map,
    target_insertion_line_0_idx,
    temp_base_line_offset_in_hunk,
    result,                      \* the lines of the returned value
    calls                        \* the calls that ended: arguments and outcome

\* GitHubAPI and its cache directory
VARIABLES
    cache_files,                 \* cache path -> what load_json_cache / load_raw_cache gives
    api_pc,                      \* "idle", or the position in get_pull_requests
    api_call,                    \* the method called last and its cache path
    all_pull_requests,
    page_num,
    page_log,                    \* the last fetch: cache path, page outcomes, file written
    requests_made,               \* the requests the call has issued
    returned,                    \* the value the last call returned
    pulls_returned               \* cache path -> what get_pull_requests returned last

\* process_pull_request_files and the directories it reads and writes
VARIABLES
    summary_file,                \* the file <base_PR_json> of pulls_meta
    detail_dir,                  \* os.listdir(pr_detail_files_dir), with the file contents
    pr_summaries_map,
    categorized_prs,
    file_i,                      \* index of the file the loop is at
    c_pc,                        \* the position in process_pull_request_files
    output_files                 \* the files written to consolidated_json

coreVars == <<fn, pc, base_content_str, patch_string, pr_details_for_annotation,
              relevant_prs_data, base_lines, hunk_sections, hunk_i, body_i,
              current_base_line_idx, patched_lines_html_result, reads,
              sorted_pr_numbers, pr_i, additions_map, target_insertion_line_0_idx,
              temp_base_line_offset_in_hunk, result, calls>>
apiVars == <<cache_files, api_pc, api_call, all_pull_requests, page_num, page_log,
             requests_made, returned, pulls_returned>>
compileVars == <<summary_file, detail_dir, pr_summaries_map, categorized_prs, file_i,
                 c_pc, output_files>>
vars == <<coreVars, apiVars, compileVars>>

\* a Python value that is None or a list / bytes value
PyNone == [some |-> FALSE, data |-> <<>>]
Val(d) == [some |-> TRUE, data |-> d]
\* bool(v)
TruthyVal(v) == v.some /\ v.data # <<>>

\* get_cache_path(owner, repo, cache_type, identifier): one file per type and identifier
GetCachePath(cache_type, identifier) == <<cache_type, identifier>>
PullStates == {"open", "closed"}
CachePaths ==
    {GetCachePath("pulls_meta", st) : st \in PullStates}
        \cup {GetCachePath("contents_metadata", ""),
              GetCachePath("file_content_blob", "sha"),
              GetCachePath("pull_files_detail", "7")}
NoCall == [fn |-> "none", path |-> GetCachePath("", "")]

\* a new GitHubAPI object over an empty cache directory
ApiIdle ==
    /\ cache_files = [k \in CachePaths |-> PyNone]
    /\ api_pc = "idle"
    /\ api_call = NoCall
    /\ all_pull_requests = <<>>
    /\ page_num = 0
    /\ page_log = [path |-> NoCall.path, outcomes |-> <<>>, written |-> FALSE]
    /\ requests_made = 0
    /\ returned = PyNone
    /\ pulls_returned = [k \in CachePaths |-> [called |-> FALSE, value |-> PyNone]]

\* process_pull_request_files is not running
CompileIdle ==
    /\ summary_file = [kind |-> "missing", items |-> <<>>]
    /\ detail_dir = <<>>
    /\ pr_summaries_map = <<>>
    /\ categorized_prs = <<>>
    /\ file_i = 0
    /\ c_pc = "idle"
    /\ output_files = <<>>

(***************************************************************************)
(* Hunk sectioning of apply_patch_to_content.                              *)
(***************************************************************************)
RECURSIVE ApplySectionsKeepingAll(_, _, _, _, _)
RECURSIVE ApplySections(_, _, _, _, _)
\* ApplySections as it would be if every line after a "@@" line were kept in the body
ApplySectionsKeepingAll(lines, i, sections, header, body) ==
    LET closed == IF header # None /\ body # NoneList
                  THEN Append(sections, <<header, body>>)
                  ELSE sections
    IN  IF i > Len(lines) THEN closed
        ELSE IF StartsWith(lines[i], <<"@", "@">>)
             THEN ApplySectionsKeepingAll(lines, i + 1, closed, lines[i], <<>>)
        ELSE IF body # NoneList
             THEN ApplySectionsKeepingAll(lines, i + 1, sections, header,
                                          Append(body, lines[i]))
        ELSE ApplySectionsKeepingAll(lines, i + 1, sections, header, body)

ApplySections(lines, i, sections, header, body) ==
    LET closed == IF header # None /\ body # NoneList
                  THEN Append(sections, <<header, body>>)
                  ELSE sections
    IN  IF i > Len(lines) THEN closed
        ELSE IF StartsWith(lines[i], <<"@", "@">>)
             THEN ApplySections(lines, i + 1, closed, lines[i], <<>>)
        ELSE IF body # NoneList
                /\ StartsWithAny(lines[i], {<<"+">>, <<"-">>, <<" ">>, <<"\\">>})
             THEN ApplySections(lines, i + 1, sections, header, Append(body, lines[i]))
        ELSE ApplySections(lines, i + 1, sections, header, body)

ApplyHunkSections(patch) == ApplySections(SplitLines(patch), 1, <<>>, None, NoneList)

\* an element of patched_lines_html_result: the escaped text and the span around it
PlainLine(text) == [text |-> HtmlEscape(text), span |-> "", pr |-> NoneDict]
\* AddedLine as it would be if an added line without details were a plain line
AddedLinePlainWithoutDetails(text, details) ==
    IF details # NoneDict
    THEN [text |-> HtmlEscape(text), span |-> "added-line pr-annotated",
          pr |-> [number |-> details.number, title |-> HtmlEscape(details.title)]]
    ELSE [text |-> HtmlEscape(text), span |-> "", pr |-> NoneDict]

AddedLine(text, details) ==
    IF details # NoneDict
    THEN [text |-> HtmlEscape(text), span |-> "added-line pr-annotated",
          pr |-> [number |-> details.number, title |-> HtmlEscape(details.title)]]
    ELSE [text |-> HtmlEscape(text), span |-> "added-line", pr |-> NoneDict]

\* [PlainLine(lines[i]) for i in range(from, to)], 0-based, to excluded
CopyBase(lines, from, to) == [k \in 1..(to - from) |-> PlainLine(lines[from + k])]

\* the lines of a returned str, each a plain (escaped, unwrapped) line
StrLines(s) ==
    LET ls == SplitLines(s)
    IN  [k \in 1..Len(ls) |-> [text |-> ls[k], span |-> "", pr |-> NoneDict]]

Min(a, b) == IF a < b THEN a ELSE b

inputVars == <<fn, base_content_str, patch_string, pr_details_for_annotation,
               relevant_prs_data>>
mergeVars == <<sorted_pr_numbers, pr_i, additions_map, target_insertion_line_0_idx,
               temp_base_line_offset_in_hunk>>
applyVars == <<current_base_line_idx, patched_lines_html_result, reads>>
\* the empty dict
EmptyMap == <<>>
\* no call has ended
NoCalls == [n |-> 0, apply |-> {}, merge |-> {}]

(***************************************************************************)
(* apply_patch_to_content(base_content_str, patch_string,                  *)
(*                        pr_details_for_annotation)                       *)
(***************************************************************************)
InitApply ==
    /\ calls = NoCalls
    /\ ApiIdle /\ CompileIdle
    /\ fn = "apply"
    /\ pc = "call"
    /\ base_content_str \in BaseStrings(MaxBaseLen)
    /\ patch_string \in PatchStrings(MaxPatchLines)
    /\ pr_details_for_annotation \in Annotations
    /\ relevant_prs_data = <<>>
    /\ sorted_pr_numbers = <<>>
    /\ pr_i = 0
    /\ additions_map = EmptyMap
    /\ target_insertion_line_0_idx = 0
    /\ temp_base_line_offset_in_hunk = 0
    /\ base_lines = <<>>
    /\ hunk_sections = <<>>
    /\ hunk_i = 0
    /\ body_i = 0
    /\ current_base_line_idx = 0
    /\ patched_lines_html_result = <<>>
    /\ reads = {}
    /\ result = <<>>

\* ReturnNoPatch as it would be if the early return gave back nothing
ReturnNoPatchNothing ==
    /\ fn = "apply" /\ pc = "call"
    /\ ~Truthy(patch_string)
    /\ result' = <<>>
    /\ pc' = "done"
    /\ UNCHANGED <<apiVars, compileVars, calls, inputVars, mergeVars, base_lines, hunk_sections, hunk_i, body_i,
                   current_base_line_idx, patched_lines_html_result, reads>>

\* the early return on a falsy patch_string
ReturnNoPatch ==
    /\ fn = "apply" /\ pc = "call"
    /\ ~Truthy(patch_string)
    /\ result' = IF Truthy(base_content_str)
                 THEN StrLines(HtmlEscape(base_content_str))
                 ELSE <<>>
    /\ pc' = "done"
    /\ UNCHANGED <<apiVars, compileVars, calls, inputVars, mergeVars, base_lines, hunk_sections, hunk_i, body_i,
                   current_base_line_idx, patched_lines_html_result, reads>>

\* base_content_str after "if base_content_str is None: base_content_str = ''"
BaseOrEmpty(b) == IF b = None THEN <<>> ELSE b

\* splitting the base and sectioning the patch; return when no hunk was found
ParsePatch ==
    /\ fn = "apply" /\ pc = "call"
    /\ Truthy(patch_string)
    /\ LET b == BaseOrEmpty(base_content_str)
           hs == ApplyHunkSections(patch_string)
       IN  /\ base_lines' = SplitLines(b)
           /\ hunk_sections' = hs
           /\ IF hs = <<>>
              THEN /\ result' = StrLines(HtmlEscape(b))
                   /\ pc' = "done"
                   /\ hunk_i' = hunk_i
              ELSE /\ result' = result
                   /\ pc' = "hunks"
                   /\ hunk_i' = 1
    /\ current_base_line_idx' = 0
    /\ patched_lines_html_result' = <<>>
    /\ UNCHANGED <<apiVars, compileVars, calls, inputVars, mergeVars, body_i, reads>>

\* the loop over hunk_sections moves to the next hunk, or ends
NextHunkPc == IF hunk_i + 1 > Len(hunk_sections) THEN "tail" ELSE "hunks"

\* "if not match: continue"
SkipHunk ==
    /\ fn = "apply" /\ pc = "hunks"
    /\ ~HeaderMatches(hunk_sections[hunk_i][1])
    /\ hunk_i' = hunk_i + 1
    /\ pc' = NextHunkPc
    /\ UNCHANGED <<apiVars, compileVars, calls, inputVars, mergeVars, base_lines, hunk_sections, body_i,
                   current_base_line_idx, patched_lines_html_result, reads, result>>

\* end_copy_idx of the copy before a hunk
EndCopyIdx(idx, lines_to_copy, len) == Min(idx + lines_to_copy, len)

\* IdxAfterHeader as it would be with the copy running up to the line old_start
IdxAfterHeaderOffByOne(idx, old_start_1based, len) ==
    LET lines_to_copy == old_start_1based - idx
    IN  IF lines_to_copy > 0 THEN EndCopyIdx(idx, lines_to_copy, len)
        ELSE IF lines_to_copy < 0 /\ old_start_1based > 0 THEN old_start_1based - 1
        ELSE idx

\* IdxAfterHeader as it would be without the move back to the hunk's start
IdxAfterHeaderNoSnap(idx, old_start_1based, len) ==
    LET lines_to_copy == (old_start_1based - 1) - idx
    IN  IF lines_to_copy > 0 THEN EndCopyIdx(idx, lines_to_copy, len)
        ELSE idx

\* current_base_line_idx after the header of a hunk was read
IdxAfterHeader(idx, old_start_1based, len) ==
    LET lines_to_copy == (old_start_1based - 1) - idx
    IN  IF lines_to_copy > 0 THEN EndCopyIdx(idx, lines_to_copy, len)
        ELSE IF lines_to_copy < 0 /\ old_start_1based > 0 THEN old_start_1based - 1
        ELSE idx

\* a matched header: copy the base lines before the hunk, or move the index back
EnterHunk ==
    /\ fn = "apply" /\ pc = "hunks"
    /\ HeaderMatches(hunk_sections[hunk_i][1])
    /\ LET old_start_1based == HeaderOldStart(hunk_sections[hunk_i][1])
           idx == current_base_line_idx
           new == IdxAfterHeader(idx, old_start_1based, Len(base_lines))
           copies == (old_start_1based - 1) - idx > 0
       IN  /\ current_base_line_idx' = new
           /\ patched_lines_html_result' =
                  IF copies
                  THEN patched_lines_html_result \o CopyBase(base_lines, idx, new)
                  ELSE patched_lines_html_result
           /\ reads' = IF copies THEN reads \cup (idx..(new - 1)) ELSE reads
    /\ IF hunk_sections[hunk_i][2] = <<>>
       THEN /\ hunk_i' = hunk_i + 1
            /\ pc' = NextHunkPc
            /\ body_i' = body_i
       ELSE /\ hunk_i' = hunk_i
            /\ pc' = "body"
            /\ body_i' = 1
    /\ UNCHANGED <<apiVars, compileVars, calls, inputVars, mergeVars, base_lines, hunk_sections, result>>

hunk_body_line == hunk_sections[hunk_i][2][body_i]

\* the loop over body_lines moves to the next line, or to the next hunk
BodyAdvance ==
    IF body_i = Len(hunk_sections[hunk_i][2])
    THEN /\ hunk_i' = hunk_i + 1
         /\ pc' = NextHunkPc
         /\ body_i' = body_i
    ELSE /\ hunk_i' = hunk_i
         /\ pc' = "body"
         /\ body_i' = body_i + 1

\* IdxAfterConsume as it would be without "if current_base_line_idx < len(base_lines)"
IdxAfterConsumeUnclamped(idx, len) == idx + 1

\* IdxAfterConsume as it would be if the line did not move the index
IdxAfterConsumeStuck(idx, len) == idx

\* current_base_line_idx after a "-" or " " line
IdxAfterConsume(idx, len) == IF idx < len THEN idx + 1 ELSE idx

BodyAdded ==
    /\ fn = "apply" /\ pc = "body"
    /\ StartsWith(hunk_body_line, <<"+">>)
    /\ patched_lines_html_result' =
           Append(patched_lines_html_result,
                  AddedLine(Tail1(hunk_body_line), pr_details_for_annotation))
    /\ BodyAdvance
    /\ UNCHANGED <<apiVars, compileVars, calls, inputVars, mergeVars, base_lines, hunk_sections, current_base_line_idx,
                   reads, result>>

BodyRemoved ==
    /\ fn = "apply" /\ pc = "body"
    /\ ~StartsWith(hunk_body_line, <<"+">>)
    /\ StartsWith(hunk_body_line, <<"-">>)
    /\ current_base_line_idx' = IdxAfterConsume(current_base_line_idx, Len(base_lines))
    /\ BodyAdvance
    /\ UNCHANGED <<apiVars, compileVars, calls, inputVars, mergeVars, base_lines, hunk_sections, patched_lines_html_result,
                   reads, result>>

\* BodyContext as it would be if it emitted the base line at the index
BodyContextEmitsBaseLine ==
    /\ fn = "apply" /\ pc = "body"
    /\ ~StartsWith(hunk_body_line, <<"+">>)
    /\ ~StartsWith(hunk_body_line, <<"-">>)
    /\ StartsWith(hunk_body_line, <<" ">>)
    /\ patched_lines_html_result' =
           IF current_base_line_idx < Len(base_lines)
           THEN Append(patched_lines_html_result,
                       PlainLine(base_lines[current_base_line_idx + 1]))
           ELSE patched_lines_html_result
    /\ current_base_line_idx' = IdxAfterConsume(current_base_line_idx, Len(base_lines))
    /\ BodyAdvance
    /\ UNCHANGED <<apiVars, compileVars, calls, inputVars, mergeVars, base_lines, hunk_sections, reads, result>>

BodyContext ==
    /\ fn = "apply" /\ pc = "body"
    /\ ~StartsWith(hunk_body_line, <<"+">>)
    /\ ~StartsWith(hunk_body_line, <<"-">>)
    /\ StartsWith(hunk_body_line, <<" ">>)
    /\ patched_lines_html_result' =
           Append(patched_lines_html_result, PlainLine(Tail1(hunk_body_line)))
    /\ current_base_line_idx' = IdxAfterConsume(current_base_line_idx, Len(base_lines))
    /\ BodyAdvance
    /\ UNCHANGED <<apiVars, compileVars, calls, inputVars, mergeVars, base_lines, hunk_sections, reads, result>>

\* BodyOther as it would be if a "\" line were walked like a Context line
BodyOtherAsContext ==
    /\ fn = "apply" /\ pc = "body"
    /\ ~StartsWith(hunk_body_line, <<"+">>)
    /\ ~StartsWith(hunk_body_line, <<"-">>)
    /\ ~StartsWith(hunk_body_line, <<" ">>)
    /\ patched_lines_html_result' =
           Append(patched_lines_html_result, PlainLine(Tail1(hunk_body_line)))
    /\ current_base_line_idx' = IdxAfterConsume(current_base_line_idx, Len(base_lines))
    /\ BodyAdvance
    /\ UNCHANGED <<apiVars, compileVars, calls, inputVars, mergeVars, base_lines, hunk_sections, reads, result>>

\* a "\" line, and any line none of the branches takes
BodyOther ==
    /\ fn = "apply" /\ pc = "body"
    /\ ~StartsWith(hunk_body_line, <<"+">>)
    /\ ~StartsWith(hunk_body_line, <<"-">>)
    /\ ~StartsWith(hunk_body_line, <<" ">>)
    /\ BodyAdvance
    /\ UNCHANGED <<apiVars, compileVars, calls, inputVars, mergeVars, base_lines, hunk_sections, current_base_line_idx,
                   patched_lines_html_result, reads, result>>

\* TailLines as it would be with the copy starting one line early
TailLinesFromLineBefore(lines, idx) ==
    IF idx < Len(lines)
    THEN CopyBase(lines, IF idx > 0 THEN idx - 1 ELSE 0, Len(lines))
    ELSE <<>>

\* TailLines as it would be if only the line at the index were copied
TailLinesOnlyNext(lines, idx) ==
    IF idx < Len(lines) THEN CopyBase(lines, idx, idx + 1) ELSE <<>>

\* the rest of the base after the last hunk
TailLines(lines, idx) ==
    IF idx < Len(lines) THEN CopyBase(lines, idx, Len(lines)) ELSE <<>>

\* the copy of the rest of the base, and the return
CopyTail ==
    /\ fn = "apply" /\ pc = "tail"
    /\ LET out == patched_lines_html_result \o TailLines(base_lines, current_base_line_idx)
       IN  /\ patched_lines_html_result' = out
           /\ result' = out
    /\ reads' = IF current_base_line_idx < Len(base_lines)
                THEN reads \cup (current_base_line_idx..(Len(base_lines) - 1))
                ELSE reads
    /\ pc' = "done"
    /\ UNCHANGED <<apiVars, compileVars, calls, inputVars, mergeVars, base_lines, hunk_sections, hunk_i, body_i,
                   current_base_line_idx>>

(***************************************************************************)
(* The value apply_patch_to_content returns, as a function of its          *)
(* arguments: the statements of the walk above, one after the other.       *)
(***************************************************************************)
RECURSIVE ApplyWalk(_, _, _, _, _, _, _)
\* the walk from the body line b of the hunk h on (b = 0: at the header)
ApplyWalk(lines, sections, details, h, b, idx, out) ==
    IF h > Len(sections) THEN out \o TailLines(lines, idx)
    ELSE LET header == sections[h][1]
             body == sections[h][2]
         IN  IF ~HeaderMatches(header)
             THEN ApplyWalk(lines, sections, details, h + 1, 0, idx, out)
             ELSE IF b = 0
             THEN LET old_start_1based == HeaderOldStart(header)
                      new == IdxAfterHeader(idx, old_start_1based, Len(lines))
                  IN  ApplyWalk(lines, sections, details, h, 1, new,
                                IF (old_start_1based - 1) - idx > 0
                                THEN out \o CopyBase(lines, idx, new) ELSE out)
             ELSE IF b > Len(body)
             THEN ApplyWalk(lines, sections, details, h + 1, 0, idx, out)
             ELSE IF StartsWith(body[b], <<"+">>)
             THEN ApplyWalk(lines, sections, details, h, b + 1, idx,
                            Append(out, AddedLine(Tail1(body[b]), details)))
             ELSE IF StartsWith(body[b], <<"-">>)
             THEN ApplyWalk(lines, sections, details, h, b + 1,
                            IdxAfterConsume(idx, Len(lines)), out)
             ELSE IF StartsWith(body[b], <<" ">>)
             THEN ApplyWalk(lines, sections, details, h, b + 1,
                            IdxAfterConsume(idx, Len(lines)),
                            Append(out, PlainLine(Tail1(body[b]))))
             ELSE ApplyWalk(lines, sections, details, h, b + 1, idx, out)

\* apply_patch_to_content(base, patch, details), as lines
ApplyOutput(base, patch, details) ==
    IF ~Truthy(patch)
    THEN IF Truthy(base) THEN StrLines(HtmlEscape(base)) ELSE <<>>
    ELSE IF ApplyHunkSections(patch) = <<>>
    THEN StrLines(HtmlEscape(BaseOrEmpty(base)))
    ELSE ApplyWalk(SplitLines(BaseOrEmpty(base)), ApplyHunkSections(patch), details,
                   1, 0, 0, <<>>)

\* the function and the steps give the same value
ApplyOutputIsResult ==
    (fn = "apply" /\ pc = "done") =>
        result = ApplyOutput(base_content_str, patch_string, pr_details_for_annotation)

NextApply ==
    \/ ReturnNoPatch
    \/ ParsePatch
    \/ SkipHunk
    \/ EnterHunk
    \/ BodyAdded
    \/ BodyRemoved
    \/ BodyContext
    \/ BodyOther
    \/ CopyTail

SpecApply == InitApply /\ [][NextApply]_vars

(***************************************************************************)
(* generate_interleaved_lines_for_all_prs(base_content_str,                *)
(*                                        relevant_prs_data)               *)
(***************************************************************************)
RECURSIVE MergeSectionsDroppingEmpty(_, _, _, _, _)
RECURSIVE MergeSections(_, _, _, _, _)
\* MergeSections as it would be if a hunk were kept only with a body
\* ("if current_hunk_header and current_hunk_body")
MergeSectionsDroppingEmpty(lines, i, sections, header, body) ==
    LET closed == IF Truthy(header) /\ Truthy(body)
                  THEN Append(sections, <<header, body>>)
                  ELSE sections
    IN  IF i > Len(lines) THEN closed
        ELSE IF StartsWith(lines[i], <<"@", "@">>)
             THEN MergeSectionsDroppingEmpty(lines, i + 1, closed, lines[i], <<>>)
        ELSE IF Truthy(header)
                /\ StartsWithAny(lines[i], {<<"+">>, <<"-">>, <<" ">>, <<"\\">>})
             THEN MergeSectionsDroppingEmpty(lines, i + 1, sections, header,
                                            Append(body, lines[i]))
        ELSE MergeSectionsDroppingEmpty(lines, i + 1, sections, header, body)

MergeSections(lines, i, sections, header, body) ==
    LET closed == IF Truthy(header)
                  THEN Append(sections, <<header, body>>)
                  ELSE sections
    IN  IF i > Len(lines) THEN closed
        ELSE IF StartsWith(lines[i], <<"@", "@">>)
             THEN MergeSections(lines, i + 1, closed, lines[i], <<>>)
        ELSE IF Truthy(header)
                /\ StartsWithAny(lines[i], {<<"+">>, <<"-">>, <<" ">>, <<"\\">>})
             THEN MergeSections(lines, i + 1, sections, header, Append(body, lines[i]))
        ELSE MergeSections(lines, i + 1, sections, header, body)

MergeHunkSections(patch) == MergeSections(SplitLines(patch), 1, <<>>, None, <<>>)

\* int(x) of a key made of decimal digits
IntOf(x) == ParseInt(x, 0)

\* int(x) returns: x is made of decimal digits (no key of the inputs has the sign,
\* blanks or underscores that int() also takes); otherwise it raises ValueError
IntParses(x) == x # <<>> /\ \A i \in 1..Len(x) : x[i] \in Digits
KeysParse(mapping) == \A k \in 1..Len(mapping) : IntParses(mapping[k][1])

\* one step of the stable sort: k goes after the keys that are not greater
InsertByInt(sorted, k) ==
    LET n == Cardinality({i \in 1..Len(sorted) : IntOf(sorted[i]) <= IntOf(k)})
    IN  SubSeq(sorted, 1, n) \o <<k>> \o SubSeq(sorted, n + 1, Len(sorted))

RECURSIVE SortFrom(_, _, _)
SortFrom(keys, i, sorted) ==
    IF i > Len(keys) THEN sorted
    ELSE SortFrom(keys, i + 1, InsertByInt(sorted, keys[i]))

\* SortedPrNumbers as it would be with the keys sorted as strings: sorted(keys)
InsertByStr(sorted, k) ==
    LET Less(a, b) == \/ Len(a) = 0 /\ Len(b) > 0
                      \/ Len(a) > 0 /\ Len(b) > 0 /\ DigitVal(a[1]) < DigitVal(b[1])
                      \/ Len(a) > 0 /\ Len(b) > 0 /\ a[1] = b[1] /\ Len(a) < Len(b)
        n == Cardinality({i \in 1..Len(sorted) : ~Less(k, sorted[i])})
    IN  SubSeq(sorted, 1, n) \o <<k>> \o SubSeq(sorted, n + 1, Len(sorted))
RECURSIVE SortStrFrom(_, _, _)
SortStrFrom(keys, i, sorted) ==
    IF i > Len(keys) THEN sorted
    ELSE SortStrFrom(keys, i + 1, InsertByStr(sorted, keys[i]))
SortedPrNumbersAsStrings(mapping) ==
    SortStrFrom([k \in 1..Len(mapping) |-> mapping[k][1]], 1, <<>>)

\* sorted(relevant_prs_data.keys(), key=lambda x: int(x))
SortedPrNumbers(mapping) ==
    SortFrom([k \in 1..Len(mapping) |-> mapping[k][1]], 1, <<>>)

\* relevant_prs_data[pr_num_str]
PrDataOf(mapping, key) ==
    mapping[CHOOSE k \in 1..Len(mapping) : mapping[k][1] = key][2]

InitMerge ==
    /\ calls = NoCalls
    /\ ApiIdle /\ CompileIdle
    /\ fn = "merge"
    /\ pc = "call"
    /\ relevant_prs_data \in
           Mappings(MaxMergeLines) \cup ScenarioMappings \cup OpaqueIdMappings
               \cup SourceMappings
    /\ base_content_str \in MergeBaseStrings(MaxBaseLen)
    /\ patch_string = None
    /\ pr_details_for_annotation = NoneDict
    /\ base_lines = <<>>
    /\ hunk_sections = <<>>
    /\ hunk_i = 0
    /\ body_i = 0
    /\ current_base_line_idx = 0
    /\ patched_lines_html_result = <<>>
    /\ reads = {}
    /\ sorted_pr_numbers = <<>>
    /\ pr_i = 0
    /\ additions_map = EmptyMap
    /\ target_insertion_line_0_idx = 0
    /\ temp_base_line_offset_in_hunk = 0
    /\ result = <<>>

\* MergeStart as it would be if additions_map outlived the call (a module-level
\* dict, or a mutable default argument)
MergeStartKeepingMap ==
    /\ fn = "merge" /\ pc = "call"
    /\ KeysParse(relevant_prs_data)
    /\ base_lines' = SplitLines(BaseOrEmpty(base_content_str))
    /\ additions_map' = additions_map
    /\ sorted_pr_numbers' = SortedPrNumbers(relevant_prs_data)
    /\ pr_i' = 1
    /\ pc' = IF relevant_prs_data = <<>> THEN "emit" ELSE "source"
    /\ UNCHANGED <<apiVars, compileVars, calls, fn, base_content_str, relevant_prs_data, patch_string,
                   pr_details_for_annotation, hunk_sections, hunk_i, body_i,
                   applyVars, target_insertion_line_0_idx,
                   temp_base_line_offset_in_hunk, result>>

\* the split of the base and the order of the sources
MergeStart ==
    /\ fn = "merge" /\ pc = "call"
    /\ KeysParse(relevant_prs_data)
    /\ base_lines' = SplitLines(BaseOrEmpty(base_content_str))
    /\ additions_map' = EmptyMap
    /\ sorted_pr_numbers' = SortedPrNumbers(relevant_prs_data)
    /\ pr_i' = 1
    /\ pc' = IF relevant_prs_data = <<>> THEN "emit" ELSE "source"
    /\ UNCHANGED <<apiVars, compileVars, calls, fn, base_content_str, relevant_prs_data, patch_string,
                   pr_details_for_annotation, hunk_sections, hunk_i, body_i,
                   applyVars, target_insertion_line_0_idx,
                   temp_base_line_offset_in_hunk, result>>

\* sorted() calls int() on every key: a key that is no number raises ValueError
\* out of the function, after base_lines and additions_map were set
MergeRaise ==
    /\ fn = "merge" /\ pc = "call"
    /\ ~KeysParse(relevant_prs_data)
    /\ base_lines' = SplitLines(BaseOrEmpty(base_content_str))
    /\ additions_map' = EmptyMap
    /\ pc' = "raised"
    /\ UNCHANGED <<apiVars, compileVars, calls, fn, base_content_str, relevant_prs_data, patch_string,
                   pr_details_for_annotation, hunk_sections, hunk_i, body_i,
                   applyVars, sorted_pr_numbers, pr_i,
                   target_insertion_line_0_idx,
                   temp_base_line_offset_in_hunk, result>>

pr_num_str == sorted_pr_numbers[pr_i]
pr_data == PrDataOf(relevant_prs_data, pr_num_str)

\* pr_details of the source the loop is at
pr_details == [number |-> pr_num_str, title |-> HtmlEscape(pr_data.title)]

\* the loop over sorted_pr_numbers moves to the next source, or ends
NextSourcePc == IF pr_i + 1 > Len(sorted_pr_numbers) THEN "emit" ELSE "source"

\* MergeSkipSource as it would be with "break" for "continue"
MergeSkipSourceBreaks ==
    /\ fn = "merge" /\ pc = "source"
    /\ ~Truthy(pr_data.patch)
    /\ patch_string' = pr_data.patch
    /\ pr_i' = pr_i + 1
    /\ pc' = "emit"
    /\ UNCHANGED <<apiVars, compileVars, calls, fn, base_content_str, relevant_prs_data, pr_details_for_annotation,
                   base_lines, hunk_sections, hunk_i, body_i, applyVars,
                   sorted_pr_numbers, additions_map, target_insertion_line_0_idx,
                   temp_base_line_offset_in_hunk, result>>

\* "if not patch_string: continue"
MergeSkipSource ==
    /\ fn = "merge" /\ pc = "source"
    /\ ~Truthy(pr_data.patch)
    /\ patch_string' = pr_data.patch
    /\ pr_i' = pr_i + 1
    /\ pc' = NextSourcePc
    /\ UNCHANGED <<apiVars, compileVars, calls, fn, base_content_str, relevant_prs_data, pr_details_for_annotation,
                   base_lines, hunk_sections, hunk_i, body_i, applyVars,
                   sorted_pr_numbers, additions_map, target_insertion_line_0_idx,
                   temp_base_line_offset_in_hunk, result>>

\* the sectioning of the patch of a source
MergeParseSource ==
    /\ fn = "merge" /\ pc = "source"
    /\ Truthy(pr_data.patch)
    /\ patch_string' = pr_data.patch
    /\ LET hs == MergeHunkSections(pr_data.patch)
       IN  /\ hunk_sections' = hs
           /\ IF hs = <<>>
              THEN /\ pr_i' = pr_i + 1
                   /\ pc' = NextSourcePc
                   /\ hunk_i' = hunk_i
              ELSE /\ pr_i' = pr_i
                   /\ pc' = "mhunks"
                   /\ hunk_i' = 1
    /\ UNCHANGED <<apiVars, compileVars, calls, fn, base_content_str, relevant_prs_data, pr_details_for_annotation,
                   base_lines, body_i, applyVars, sorted_pr_numbers, additions_map,
                   target_insertion_line_0_idx, temp_base_line_offset_in_hunk, result>>

\* the loop over hunk_sections moves to the next hunk, or to the next source
MergeHunkAdvance ==
    IF hunk_i + 1 > Len(hunk_sections)
    THEN /\ pr_i' = pr_i + 1
         /\ pc' = NextSourcePc
         /\ hunk_i' = hunk_i
    ELSE /\ pr_i' = pr_i
         /\ pc' = "mhunks"
         /\ hunk_i' = hunk_i + 1

\* MergeSkipHunk as it would be with "break" for "continue"
MergeSkipHunkBreaks ==
    /\ fn = "merge" /\ pc = "mhunks"
    /\ ~HeaderMatches(hunk_sections[hunk_i][1])
    /\ pr_i' = pr_i + 1
    /\ pc' = NextSourcePc
    /\ hunk_i' = hunk_i
    /\ UNCHANGED <<apiVars, compileVars, calls, fn, base_content_str, relevant_prs_data, patch_string,
                   pr_details_for_annotation, base_lines, hunk_sections, body_i,
                   applyVars, sorted_pr_numbers, additions_map,
                   target_insertion_line_0_idx, temp_base_line_offset_in_hunk, result>>

\* "if not match: continue"
MergeSkipHunk ==
    /\ fn = "merge" /\ pc = "mhunks"
    /\ ~HeaderMatches(hunk_sections[hunk_i][1])
    /\ MergeHunkAdvance
    /\ UNCHANGED <<apiVars, compileVars, calls, fn, base_content_str, relevant_prs_data, patch_string,
                   pr_details_for_annotation, base_lines, hunk_sections, body_i,
                   applyVars, sorted_pr_numbers, additions_map,
                   target_insertion_line_0_idx, temp_base_line_offset_in_hunk, result>>

\* TargetInsertionIdx as it would be with old_start 0 taken as the first line
TargetInsertionIdxFirstLine(old_start_1based) ==
    IF old_start_1based > 0 THEN old_start_1based - 1 ELSE 0

\* target_insertion_line_0_idx of a hunk
TargetInsertionIdx(old_start_1based) ==
    IF old_start_1based > 0 THEN old_start_1based - 1 ELSE -1

MergeEnterHunk ==
    /\ fn = "merge" /\ pc = "mhunks"
    /\ HeaderMatches(hunk_sections[hunk_i][1])
    /\ target_insertion_line_0_idx' =
           TargetInsertionIdx(HeaderOldStart(hunk_sections[hunk_i][1]))
    /\ temp_base_line_offset_in_hunk' = 0
    /\ IF hunk_sections[hunk_i][2] = <<>>
       THEN /\ MergeHunkAdvance
            /\ body_i' = body_i
       ELSE /\ pr_i' = pr_i
            /\ hunk_i' = hunk_i
            /\ pc' = "mbody"
            /\ body_i' = 1
    /\ UNCHANGED <<apiVars, compileVars, calls, fn, base_content_str, relevant_prs_data, patch_string,
                   pr_details_for_annotation, base_lines, hunk_sections, applyVars,
                   sorted_pr_numbers, additions_map, result>>

\* the loop over body moves to the next line, or to the next hunk
MergeBodyAdvance ==
    IF body_i = Len(hunk_sections[hunk_i][2])
    THEN /\ MergeHunkAdvance
         /\ body_i' = body_i
    ELSE /\ pr_i' = pr_i
         /\ hunk_i' = hunk_i
         /\ pc' = "mbody"
         /\ body_i' = body_i + 1

\* MapAppend as it would be with insert(0, obj) for append(obj)
MapPrepend(m, key, obj) ==
    IF key \in DOMAIN m
    THEN [m EXCEPT ![key] = <<obj>> \o @]
    ELSE (key :> <<obj>>) @@ m

\* additions_map after additions_map[key].append(obj)
MapAppend(m, key, obj) ==
    IF key \in DOMAIN m
    THEN [m EXCEPT ![key] = Append(@, obj)]
    ELSE (key :> <<obj>>) @@ m

\* InsertionKey as it would be without the offset: the key of the hunk's start
InsertionKeyOfHunkStart(target, offset) == target

\* insertion_key of an added line
InsertionKey(target, offset) == target + offset

\* temp_base_line_offset_in_hunk after a "-" or " " line
OffsetAfterConsume(offset) == offset + 1

MergeBodyAdded ==
    /\ fn = "merge" /\ pc = "mbody"
    /\ StartsWith(hunk_body_line, <<"+">>)
    /\ LET line_obj == [text |-> HtmlEscape(Tail1(hunk_body_line)), type |-> "added",
                        pr_info |-> pr_details]
           insertion_key == InsertionKey(target_insertion_line_0_idx,
                                         temp_base_line_offset_in_hunk)
       IN  additions_map' = MapAppend(additions_map, insertion_key, line_obj)
    /\ MergeBodyAdvance
    /\ UNCHANGED <<apiVars, compileVars, calls, fn, base_content_str, relevant_prs_data, patch_string,
                   pr_details_for_annotation, base_lines, hunk_sections, applyVars,
                   sorted_pr_numbers, target_insertion_line_0_idx,
                   temp_base_line_offset_in_hunk, result>>

MergeBodyRemoved ==
    /\ fn = "merge" /\ pc = "mbody"
    /\ ~StartsWith(hunk_body_line, <<"+">>)
    /\ StartsWith(hunk_body_line, <<"-">>)
    /\ temp_base_line_offset_in_hunk' = OffsetAfterConsume(temp_base_line_offset_in_hunk)
    /\ MergeBodyAdvance
    /\ UNCHANGED <<apiVars, compileVars, calls, fn, base_content_str, relevant_prs_data, patch_string,
                   pr_details_for_annotation, base_lines, hunk_sections, applyVars,
                   sorted_pr_numbers, additions_map, target_insertion_line_0_idx,
                   result>>

MergeBodyContext ==
    /\ fn = "merge" /\ pc = "mbody"
    /\ ~StartsWith(hunk_body_line, <<"+">>)
    /\ ~StartsWith(hunk_body_line, <<"-">>)
    /\ StartsWith(hunk_body_line, <<" ">>)
    /\ temp_base_line_offset_in_hunk' = OffsetAfterConsume(temp_base_line_offset_in_hunk)
    /\ MergeBodyAdvance
    /\ UNCHANGED <<apiVars, compileVars, calls, fn, base_content_str, relevant_prs_data, patch_string,
                   pr_details_for_annotation, base_lines, hunk_sections, applyVars,
                   sorted_pr_numbers, additions_map, target_insertion_line_0_idx,
                   result>>

\* a "\" line: no branch takes it
MergeBodyOther ==
    /\ fn = "merge" /\ pc = "mbody"
    /\ ~StartsWith(hunk_body_line, <<"+">>)
    /\ ~StartsWith(hunk_body_line, <<"-">>)
    /\ ~StartsWith(hunk_body_line, <<" ">>)
    /\ MergeBodyAdvance
    /\ UNCHANGED <<apiVars, compileVars, calls, fn, base_content_str, relevant_prs_data, patch_string,
                   pr_details_for_annotation, base_lines, hunk_sections, applyVars,
                   sorted_pr_numbers, additions_map, target_insertion_line_0_idx,
                   temp_base_line_offset_in_hunk, result>>

BaseObj(text) == [text |-> HtmlEscape(text), type |-> "base", pr_info |-> NoneDict]

\* additions_map[key] when "key in additions_map", nothing otherwise
AdditionsAt(m, key) == IF key \in DOMAIN m THEN m[key] ELSE <<>>

RECURSIVE EmitFromReplacing(_, _, _)
\* EmitFrom as it would be if the insertions keyed i were emitted in place of the
\* base line i ("else" before the append of the base object)
EmitFromReplacing(lines, i, m) ==
    IF i >= Len(lines) THEN <<>>
    ELSE (IF i \in DOMAIN m THEN m[i] ELSE <<BaseObj(lines[i + 1])>>)
             \o EmitFromReplacing(lines, i + 1, m)

RECURSIVE EmitFromInsertingBefore(_, _, _)
\* EmitFrom as it would be with the insertions keyed i emitted before the base
\* line i
EmitFromInsertingBefore(lines, i, m) ==
    IF i >= Len(lines) THEN <<>>
    ELSE AdditionsAt(m, i) \o <<BaseObj(lines[i + 1])>>
             \o EmitFromInsertingBefore(lines, i + 1, m)

RECURSIVE EmitFrom(_, _, _)
\* the loop "for i, base_line_text in enumerate(base_lines)", from the 0-based i on
EmitFrom(lines, i, m) ==
    IF i >= Len(lines) THEN <<>>
    ELSE <<BaseObj(lines[i + 1])>> \o AdditionsAt(m, i) \o EmitFrom(lines, i + 1, m)

\* FinalLines as it would be if the insertions keyed len(base_lines) were appended
\* after the last base line
FinalLinesAppendingRest(lines, m) ==
    AdditionsAt(m, -1) \o EmitFrom(lines, 0, m) \o AdditionsAt(m, Len(lines))

\* final_lines_with_objects
FinalLines(lines, m) == AdditionsAt(m, -1) \o EmitFrom(lines, 0, m)

MergeEmit ==
    /\ fn = "merge" /\ pc = "emit"
    /\ result' = FinalLines(base_lines, additions_map)
    /\ pc' = "done"
    /\ UNCHANGED <<apiVars, compileVars, calls, fn, base_content_str, relevant_prs_data, patch_string,
                   pr_details_for_annotation, base_lines, hunk_sections, hunk_i, body_i,
                   applyVars, mergeVars>>

NextMerge ==
    \/ MergeStart
    \/ MergeRaise
    \/ MergeSkipSource
    \/ MergeParseSource
    \/ MergeSkipHunk
    \/ MergeEnterHunk
    \/ MergeBodyAdded
    \/ MergeBodyRemoved
    \/ MergeBodyContext
    \/ MergeBodyOther
    \/ MergeEmit

SpecMerge == InitMerge /\ [][NextMerge]_vars

(***************************************************************************)
(* Calls one after the other.  A call that ended is followed by a call of  *)
(* either function.  The locals of a call are what its own statements      *)
(* assign: the variables keep what the call before left in them until the  *)
(* new call assigns them, so a value that is read before it is assigned    *)
(* would show in the outcome.                                              *)
(***************************************************************************)
CallBases == {None, JoinLines(SubSeq(BaseLinesAll, 1, 3))}
CallPatches ==
    {None, JoinLines(PatchBadThenGood),
     JoinLines(PatchRemoval \o <<LineAddX, LineNoNewline>>)}
CallDetails(patch) == IF patch = None THEN {NoneDict} ELSE Annotations
CallMappings ==
    {<<Source2Q, Source1P>>,
     << <<<<"2">>, PrData(JoinLines(PatchBadThenGood))>> >>,
     << <<PrIdNotNumber, PrData(JoinLines(<<HdrOld1, LineAddX>>))>> >>,
     << <<<<"1", "0">>, PrData(None)>>,
        <<<<"2">>, PrData(JoinLines(PatchRemoval \o <<LineAddX, LineNoNewline>>))>> >>}

\* the call that ended, as the caller saw it
ApplyCall ==
    [base |-> base_content_str, patch |-> patch_string,
     details |-> pr_details_for_annotation, out |-> result]
MergeCall ==
    [base |-> base_content_str, mapping |-> relevant_prs_data,
     raised |-> (pc = "raised"), out |-> IF pc = "raised" THEN <<>> ELSE result]

InitCalls ==
    /\ InitApply \/ InitMerge
    /\ base_content_str \in CallBases
    /\ fn = "apply" =>
           /\ patch_string \in CallPatches
           /\ pr_details_for_annotation \in CallDetails(patch_string)
    /\ fn = "merge" => relevant_prs_data \in CallMappings

\* the caller calls again
CallAgain ==
    /\ pc \in {"done", "raised"}
    /\ calls.n + 1 < MaxCalls
    /\ calls' = [n |-> calls.n + 1,
                 apply |-> IF fn = "apply" THEN calls.apply \cup {ApplyCall}
                           ELSE calls.apply,
                 merge |-> IF fn = "merge" THEN calls.merge \cup {MergeCall}
                           ELSE calls.merge]
    /\ base_content_str' \in CallBases
    /\ \/ /\ fn' = "apply"
          /\ patch_string' \in CallPatches
          /\ pr_details_for_annotation' \in CallDetails(patch_string')
          /\ relevant_prs_data' = <<>>
       \/ /\ fn' = "merge"
          /\ relevant_prs_data' \in CallMappings
          /\ patch_string' = None
          /\ pr_details_for_annotation' = NoneDict
    /\ pc' = "call"
    /\ reads' = {}
    /\ UNCHANGED <<apiVars, compileVars, base_lines, hunk_sections, hunk_i, body_i,
                   current_base_line_idx, patched_lines_html_result, mergeVars, result>>

NextCalls == NextApply \/ NextMerge \/ CallAgain
SpecCalls == InitCalls /\ [][NextCalls]_vars

(***************************************************************************)
(* The file pages of process_repository call                               *)
(* generate_interleaved_lines_for_all_prs once per file, each time with    *)
(* the patches the pull requests have for that file (a patch may be None). *)
(***************************************************************************)
InitSources ==
    /\ InitMerge
    /\ base_content_str \in CallBases
    /\ relevant_prs_data \in SourceMappings

\* the next file: the ended call is recorded and the function is called again
MergeAgain ==
    /\ fn = "merge" /\ pc \in {"done", "raised"}
    /\ calls.n + 1 < MaxCalls
    /\ calls' = [calls EXCEPT !.n = @ + 1, !.merge = @ \cup {MergeCall}]
    /\ base_content_str' \in CallBases
    /\ relevant_prs_data' \in SourceMappings
    /\ pc' = "call"
    /\ reads' = {}
    /\ UNCHANGED <<apiVars, compileVars, fn, patch_string, pr_details_for_annotation,
                   base_lines, hunk_sections, hunk_i, body_i, current_base_line_idx,
                   patched_lines_html_result, mergeVars, result>>

NextSources == NextMerge \/ MergeAgain
SpecSources == InitSources /\ [][NextSources]_vars

(***************************************************************************)
(* GitHubAPI: the four methods that read through the cache directory.      *)
(* The server answers each request as it likes; a page of pull requests    *)
(* is the list of its page number.                                         *)
(***************************************************************************)
\* neither reconstruction function is running
CoreIdle ==
    /\ calls = NoCalls
    /\ fn = "none"
    /\ pc = "idle"
    /\ base_content_str = None
    /\ patch_string = None
    /\ pr_details_for_annotation = NoneDict
    /\ relevant_prs_data = <<>>
    /\ base_lines = <<>>
    /\ hunk_sections = <<>>
    /\ hunk_i = 0
    /\ body_i = 0
    /\ current_base_line_idx = 0
    /\ patched_lines_html_result = <<>>
    /\ reads = {}
    /\ sorted_pr_numbers = <<>>
    /\ pr_i = 0
    /\ additions_map = EmptyMap
    /\ target_insertion_line_0_idx = 0
    /\ temp_base_line_offset_in_hunk = 0
    /\ result = <<>>

InitApi == CoreIdle /\ ApiIdle /\ CompileIdle

\* save_json_cache / save_raw_cache: the file is written, or the write fails with a
\* warning and the file stays as it was
SaveCache(files, path, data, written) ==
    IF written THEN [files EXCEPT ![path] = Val(data)] ELSE files

\* the answers to one request for a page: data and a next link, data and no next
\* link, no data, or one of the three errors; the server has MaxPages pages
PageErrors == {"http_error", "request_error", "json_error"}
PageOutcomes(page) ==
    {"ok_last", "ok_empty"} \cup PageErrors
        \cup (IF page < MaxPages THEN {"ok_next"} ELSE {})

\* get_pull_requests up to the while loop: the cached list, or the start of the fetch
GetPullRequests ==
    /\ api_pc = "idle"
    /\ \E state \in PullStates :
          LET cache_file == GetCachePath("pulls_meta", state)
              cached_data == cache_files[cache_file]
          IN  /\ api_call' = [fn |-> "get_pull_requests", path |-> cache_file]
              /\ requests_made' = 0
              /\ IF cached_data # PyNone
                 THEN /\ returned' = cached_data
                      /\ pulls_returned' =
                             [pulls_returned EXCEPT
                                 ![cache_file] = [called |-> TRUE, value |-> cached_data]]
                      /\ UNCHANGED <<api_pc, all_pull_requests, page_num, page_log>>
                 ELSE /\ api_pc' = "page"
                      /\ all_pull_requests' = <<>>
                      /\ page_num' = 1
                      /\ page_log' = [path |-> cache_file, outcomes |-> <<>>,
                                      written |-> FALSE]
                      /\ UNCHANGED <<returned, pulls_returned>>
    /\ UNCHANGED <<coreVars, compileVars, cache_files>>

\* FetchPage as it would be if an error only ended the loop
FetchPageKeepingPages ==
    /\ api_pc = "page"
    /\ \E outcome \in PageOutcomes(page_num) :
          /\ page_log' = [page_log EXCEPT !.outcomes = Append(@, outcome)]
          /\ all_pull_requests' =
                 IF outcome \in {"ok_next", "ok_last"}
                 THEN all_pull_requests \o <<page_num>>
                 ELSE all_pull_requests
          /\ page_num' = IF outcome = "ok_next" THEN page_num + 1 ELSE page_num
          /\ api_pc' = IF outcome = "ok_next" THEN "page" ELSE "save"
    /\ requests_made' = requests_made + 1
    /\ UNCHANGED <<coreVars, compileVars, cache_files, api_call, returned, pulls_returned>>

\* one turn of "while current_url"
FetchPage ==
    /\ api_pc = "page"
    /\ \E outcome \in PageOutcomes(page_num) :
          /\ page_log' = [page_log EXCEPT !.outcomes = Append(@, outcome)]
          /\ all_pull_requests' =
                 IF outcome \in {"ok_next", "ok_last"}
                 THEN all_pull_requests \o <<page_num>>
                 ELSE IF outcome = "ok_empty" THEN all_pull_requests
                 ELSE <<>>
          /\ page_num' = IF outcome = "ok_next" THEN page_num + 1 ELSE page_num
          /\ api_pc' = IF outcome = "ok_next" THEN "page" ELSE "save"
    /\ requests_made' = requests_made + 1
    /\ UNCHANGED <<coreVars, compileVars, cache_files, api_call, returned, pulls_returned>>

\* SavePullRequests as it would be if an empty list were not saved
SavePullRequestsIfAny ==
    /\ api_pc = "save"
    /\ \E written \in BOOLEAN :
          /\ cache_files' = SaveCache(cache_files, api_call.path, all_pull_requests,
                                      written /\ all_pull_requests # <<>>)
          /\ page_log' = [page_log EXCEPT !.written = written]
    /\ returned' = Val(all_pull_requests)
    /\ pulls_returned' =
           [pulls_returned EXCEPT
               ![api_call.path] = [called |-> TRUE, value |-> Val(all_pull_requests)]]
    /\ api_pc' = "idle"
    /\ UNCHANGED <<coreVars, compileVars, api_call, all_pull_requests, page_num,
                   requests_made>>

\* "save_json_cache(cache_file, all_pull_requests)" and the return
SavePullRequests ==
    /\ api_pc = "save"
    /\ \E written \in BOOLEAN :
          /\ cache_files' = SaveCache(cache_files, api_call.path, all_pull_requests, written)
          /\ page_log' = [page_log EXCEPT !.written = written]
    /\ returned' = Val(all_pull_requests)
    /\ pulls_returned' =
           [pulls_returned EXCEPT
               ![api_call.path] = [called |-> TRUE, value |-> Val(all_pull_requests)]]
    /\ api_pc' = "idle"
    /\ UNCHANGED <<coreVars, compileVars, api_call, all_pull_requests, page_num,
                   requests_made>>

\* what _request returns: None after an error, or the decoded JSON, which may be empty
Responses == {PyNone, Val(<<>>), Val(<<1>>)}

\* CachedOrRequest as it would be if the data were saved whenever the request was made
CachedOrRequestSavingAll(method, cache_file) ==
    /\ api_pc = "idle"
    /\ api_call' = [fn |-> method, path |-> cache_file]
    /\ LET cached_data == cache_files[cache_file]
       IN  IF TruthyVal(cached_data)
           THEN /\ returned' = cached_data
                /\ requests_made' = 0
                /\ cache_files' = cache_files
           ELSE \E data \in Responses, written \in BOOLEAN :
                   /\ returned' = data
                   /\ requests_made' = 1
                   /\ cache_files' = SaveCache(cache_files, cache_file, data.data, written)
    /\ UNCHANGED <<coreVars, compileVars, api_pc, all_pull_requests, page_num, page_log,
                   pulls_returned>>

\* the body get_repo_contents and get_pull_request_files share: the cached data if
\* truthy, else one request whose data is saved if truthy
CachedOrRequest(method, cache_file) ==
    /\ api_pc = "idle"
    /\ api_call' = [fn |-> method, path |-> cache_file]
    /\ LET cached_data == cache_files[cache_file]
       IN  IF TruthyVal(cached_data)
           THEN /\ returned' = cached_data
                /\ requests_made' = 0
                /\ cache_files' = cache_files
           ELSE \E data \in Responses, written \in BOOLEAN :
                   /\ returned' = data
                   /\ requests_made' = 1
                   /\ cache_files' =
                          SaveCache(cache_files, cache_file, data.data,
                                    written /\ TruthyVal(data))
    /\ UNCHANGED <<coreVars, compileVars, api_pc, all_pull_requests, page_num, page_log,
                   pulls_returned>>

GetRepoContents ==
    CachedOrRequest("get_repo_contents", GetCachePath("contents_metadata", ""))

GetPullRequestFiles ==
    CachedOrRequest("get_pull_request_files", GetCachePath("pull_files_detail", "7"))

\* blob_metadata: None, metadata that is not base64, base64 content (of a file with
\* bytes, of an empty file), or content that b64decode rejects
BlobResponses == {"none", "not_base64", "base64_bytes", "base64_empty", "base64_bad"}
GetFileBlobContent ==
    /\ api_pc = "idle"
    /\ LET cache_file == GetCachePath("file_content_blob", "sha")
           cached_data == cache_files[cache_file]
       IN  /\ api_call' = [fn |-> "get_file_blob_content", path |-> cache_file]
           /\ IF TruthyVal(cached_data)
              THEN /\ returned' = cached_data
                   /\ requests_made' = 0
                   /\ cache_files' = cache_files
              ELSE \E blob_metadata \in BlobResponses, written \in BOOLEAN :
                      /\ requests_made' = 1
                      /\ IF blob_metadata \in {"base64_bytes", "base64_empty"}
                         THEN LET decoded_bytes ==
                                      IF blob_metadata = "base64_bytes" THEN <<1>> ELSE <<>>
                              IN  /\ cache_files' = SaveCache(cache_files, cache_file,
                                                              decoded_bytes, written)
                                  /\ returned' = Val(decoded_bytes)
                         ELSE /\ cache_files' = cache_files
                              /\ returned' = PyNone
    /\ UNCHANGED <<coreVars, compileVars, api_pc, all_pull_requests, page_num, page_log,
                   pulls_returned>>

NextApi ==
    \/ GetPullRequests
    \/ FetchPage
    \/ SavePullRequests
    \/ GetRepoContents
    \/ GetPullRequestFiles
    \/ GetFileBlobContent
SpecApi == InitApi /\ [][NextApi]_vars

(***************************************************************************)
(* process_pull_request_files (compile_pull_requests_into_label_json_files)*)
(***************************************************************************)
\* the category of a PR without labels, as characters
NoLabel == <<"n", "o", "_", "l", "a", "b", "e", "l">>

\* the summary file: its directory is missing, the file is missing, it is not JSON,
\* it is not a list, or it is a list with an item for PR 1, for PR 2, and one without
\* a number
SummaryFiles ==
    LET LabelBug == <<"b", "u", "g">>
        LabelDoc == <<"d", "o", "c">>
        Item(n, labels) ==
            [numbered |-> TRUE, number |-> n, url |-> "u", title |-> "t", body |-> "b",
             labels |-> labels]
        Unnumbered == [Item(0, <<LabelBug>>) EXCEPT !.numbered = FALSE]
        items1 == {<<>>} \cup {<<Item(1, ls)>> :
                                  ls \in {<<>>, <<LabelBug>>, <<LabelBug, LabelDoc>>,
                                          << <<>> >>}}
        items2 == {<<>>, <<Item(2, <<LabelDoc>>)>>, <<Unnumbered>>}
    IN  {[kind |-> k, items |-> <<>>] : k \in {"no_dir", "missing", "bad_json", "not_list"}}
            \cup {[kind |-> "list", items |-> i1 \o i2] : i1 \in items1, i2 \in items2}

\* os.listdir(pr_detail_files_dir): up to MaxFiles files with different names, in any
\* order; a file holds a list of file changes or is not JSON
DetailDirs ==
    LET Json(name) == name \o <<".", "j", "s", "o", "n">>
        change == [filename |-> "f", patch |-> JoinLines(<<HdrOld1, LineAddX,
                                                         <<"+", "+", "+">>, LineDelA>>)]
        nopatch == [filename |-> "g", patch |-> None]
        files == {[name |-> Json(<<"1">>), ok |-> TRUE, changes |-> <<change, nopatch>>],
                  [name |-> Json(<<"2">>), ok |-> TRUE, changes |-> <<>>],
                  [name |-> Json(<<"2">>), ok |-> FALSE, changes |-> <<>>],
                  [name |-> Json(<<"x">>), ok |-> TRUE, changes |-> <<change>>],
                  [name |-> <<"1", ".", "t", "x", "t">>, ok |-> FALSE, changes |-> <<>>]}
    IN  {d \in SeqsUpTo(files, MaxFiles) :
            \A i, j \in 1..Len(d) : i # j => d[i].name # d[j].name}

InitCompile ==
    /\ CoreIdle /\ ApiIdle
    /\ summary_file \in SummaryFiles
    /\ detail_dir \in DetailDirs
    /\ pr_summaries_map = <<>>
    /\ categorized_prs = <<>>
    /\ file_i = 0
    /\ c_pc = "start"
    /\ output_files = <<>>

\* the test for the two directories and step 1: pr_summaries_map from the summary file
LoadSummaries ==
    /\ c_pc = "start"
    /\ IF summary_file.kind = "no_dir"
       THEN /\ c_pc' = "done"
            /\ UNCHANGED <<pr_summaries_map, file_i>>
       ELSE LET items == summary_file.items
                numbered == {k \in 1..Len(items) : items[k].numbered}
                Last(n) == CHOOSE k \in numbered :
                               /\ items[k].number = n
                               /\ \A j \in numbered : items[j].number = n => j <= k
            IN  /\ pr_summaries_map' =
                       [n \in {items[k].number : k \in numbered} |->
                           [url |-> items[Last(n)].url,
                            title |-> items[Last(n)].title,
                            body |-> items[Last(n)].body,
                            labels |-> SelectSeq(items[Last(n)].labels, Truthy)]]
                /\ file_i' = 1
                /\ c_pc' = IF detail_dir = <<>> THEN "save" ELSE "files"
    /\ UNCHANGED <<coreVars, apiVars, summary_file, detail_dir, categorized_prs,
                   output_files>>

\* "file_name.endswith('.json') and file_name[:-5].isdigit()"
IsPrNumberFile(file_name) ==
    /\ Len(file_name) > 5
    /\ SubSeq(file_name, Len(file_name) - 4, Len(file_name)) = <<".", "j", "s", "o", "n">>
    /\ \A k \in 1..(Len(file_name) - 5) : file_name[k] \in Digits

\* the lines of a patch that start with "+" and not with "+++", without the "+"
AddedLines(patch) ==
    LET IsAddedLine(line) ==
            StartsWith(line, <<"+">>) /\ ~StartsWith(line, <<"+", "+", "+">>)
        lines == SelectSeq(SplitLines(patch), IsAddedLine)
    IN  [k \in 1..Len(lines) |-> Tail1(lines[k])]

\* one turn of the loop of step 2.  pr_info['title'] is read from the entry of the
\* summary map or from the default {'url': '', 'body': '', 'labels': []}, which has no
\* 'title': the KeyError is caught by "except Exception" and the file is left out
ProcessDetailFile ==
    /\ c_pc = "files"
    /\ LET file == detail_dir[file_i]
           pr_number == IntOf(SubSeq(file.name, 1, Len(file.name) - 5))
       IN  IF IsPrNumberFile(file.name) /\ file.ok
              /\ pr_number \in DOMAIN pr_summaries_map
           THEN LET pr_info == pr_summaries_map[pr_number]
                    processed_pr_entry ==
                        [pr_number |-> pr_number, url |-> pr_info.url,
                         title |-> pr_info.title, body |-> pr_info.body,
                         file_changes |->
                             [k \in 1..Len(file.changes) |->
                                 [filename |-> file.changes[k].filename,
                                  added_lines |->
                                      IF Truthy(file.changes[k].patch)
                                      THEN AddedLines(file.changes[k].patch)
                                      ELSE <<>>]]]
                    labels == IF pr_info.labels # <<>>
                              THEN {pr_info.labels[k] : k \in 1..Len(pr_info.labels)}
                              ELSE {NoLabel}
                    Times(l) == IF pr_info.labels = <<>> THEN 1
                                ELSE Cardinality({k \in 1..Len(pr_info.labels) :
                                                     pr_info.labels[k] = l})
                    Old(l) == IF l \in DOMAIN categorized_prs
                              THEN categorized_prs[l] ELSE <<>>
                IN  categorized_prs' =
                        [l \in DOMAIN categorized_prs \cup labels |->
                            IF l \in labels
                            THEN Old(l) \o [k \in 1..Times(l) |-> processed_pr_entry]
                            ELSE Old(l)]
           ELSE categorized_prs' = categorized_prs
    /\ file_i' = file_i + 1
    /\ c_pc' = IF file_i = Len(detail_dir) THEN "save" ELSE "files"
    /\ UNCHANGED <<coreVars, apiVars, summary_file, detail_dir, pr_summaries_map,
                   output_files>>

\* step 3: one file per label, named by the label with "_" for what is not
\* alphanumeric; a file that cannot be written is left out with a message
SaveCategorized ==
    /\ c_pc = "save"
    /\ \E failed \in SUBSET DOMAIN categorized_prs :
          LET Alnum == Digits \cup {"a", "b", "c", "d", "e", "f", "g", "h", "i", "j", "k",
                                   "l", "m", "n", "o", "p", "q", "r", "s", "t", "u", "v",
                                   "w", "x", "y", "z"}
              safe_label_name(l) ==
                  [k \in 1..Len(l) |-> IF l[k] \in Alnum THEN l[k] ELSE "_"]
              written == DOMAIN categorized_prs \ failed
          IN  output_files' =
                  [name \in {safe_label_name(l) : l \in written} |->
                      categorized_prs[CHOOSE l \in written : safe_label_name(l) = name]]
    /\ c_pc' = "done"
    /\ UNCHANGED <<coreVars, apiVars, summary_file, detail_dir, pr_summaries_map,
                   categorized_prs, file_i>>

NextCompile == LoadSummaries \/ ProcessDetailFile \/ SaveCategorized
SpecCompile == InitCompile /\ [][NextCompile]_vars

(***************************************************************************)
(* Either function is called, on no file or on the file a, b, c: what      *)
(* varies here is the patch.                                               *)
(***************************************************************************)
ParserBases == {None, JoinLines(SubSeq(BaseLinesAll, 1, 3))}
Init == (InitApply \/ InitMerge) /\ base_content_str \in ParserBases
Next == NextApply \/ NextMerge
Spec == Init /\ [][Next]_vars

(***************************************************************************)
(* What the properties speak of, read off the arguments and the result.    *)
(***************************************************************************)
\* the lines of the base argument
BaseArgLines == SplitLines(BaseOrEmpty(base_content_str))

RECURSIVE AddedFrom(_, _, _)
\* the "+" lines of the hunks whose header is well formed (open tells whether the
\* last "@@" line before line i is), as <<old_start, lines consumed before, text>>
AddedFrom(lines, i, st) ==
    IF i > Len(lines) THEN <<>>
    ELSE IF StartsWith(lines[i], <<"@", "@">>)
         THEN AddedFrom(lines, i + 1,
                        [open |-> HeaderMatches(lines[i]),
                         old |-> IF HeaderMatches(lines[i])
                                 THEN HeaderOldStart(lines[i]) ELSE 0,
                         used |-> 0])
    ELSE IF st.open /\ StartsWith(lines[i], <<"+">>)
         THEN << <<st.old, st.used, Tail(lines[i])>> >> \o AddedFrom(lines, i + 1, st)
    ELSE IF st.open /\ StartsWithAny(lines[i], {<<"-">>, <<" ">>})
         THEN AddedFrom(lines, i + 1, [st EXCEPT !.used = @ + 1])
    ELSE AddedFrom(lines, i + 1, st)

\* the Added lines of a patch text
AddedOf(patch) ==
    IF Truthy(patch)
    THEN AddedFrom(SplitLines(patch), 1, [open |-> FALSE, old |-> 0, used |-> 0])
    ELSE <<>>

\* the number of elements of a sequence that satisfy Test
CountIn(seq, Test(_)) == Cardinality({k \in 1..Len(seq) : Test(seq[k])})

IsBaseObj(o) == o.type = "base"
IsAddedObj(o) == o.type = "added"
IsPlain(o) == o.span = ""
IsSpan(o) == o.span # ""

RECURSIVE SumOver(_, _)
SumOver(f, S) ==
    IF S = {} THEN 0
    ELSE LET x == CHOOSE y \in S : TRUE IN f[x] + SumOver(f, S \ {x})

\* the number of Added lines of all the patches of the mapping
TotalAdded(mapping) ==
    SumOver([k \in 1..Len(mapping) |-> Len(AddedOf(mapping[k][2].patch))],
            1..Len(mapping))

MergeDone == fn = "merge" /\ pc = "done"
ApplyDone == fn = "apply" /\ pc = "done"

(***************************************************************************)
(* C1: merge completeness.  The output of the merge holds every Added line *)
(* of every parsed hunk of every patch exactly once: for each source as    *)
(* many added objects as its patch has Added lines, and len(base) plus the *)
(* number of all Added lines in all.                                       *)
(***************************************************************************)
AddedOfSource(mapping, k) == Len(AddedOf(mapping[k][2].patch))
EmittedOfSource(out, key) ==
    Cardinality({n \in 1..Len(out) :
                    IsAddedObj(out[n]) /\ out[n].pr_info.number = key})

C1_MergeCompleteness ==
    MergeDone =>
        /\ Len(result) = Len(BaseArgLines) + TotalAdded(relevant_prs_data)
        /\ \A k \in 1..Len(relevant_prs_data) :
               EmittedOfSource(result, relevant_prs_data[k][1])
                   = AddedOfSource(relevant_prs_data, k)

(***************************************************************************)
(* C2: the base objects of the output of the merge are the lines of the    *)
(* base, each once and in their order, whatever the patches remove.        *)
(***************************************************************************)
C2_BaseLinesKept ==
    MergeDone =>
        SelectSeq(result, IsBaseObj)
            = [k \in 1..Len(BaseArgLines) |->
                  [text |-> HtmlEscape(BaseArgLines[k]), type |-> "base",
                   pr_info |-> NoneDict]]

\* a patch removed the first line and added one, and the base is all there
C2_Witness ==
    /\ MergeDone
    /\ base_content_str = JoinLines(SubSeq(BaseLinesAll, 1, 2))
    /\ relevant_prs_data
           = << << <<"2">>, PrData(JoinLines(<<HdrOld1, LineDelA, LineAddX>>)) >> >>
    /\ Len(SelectSeq(result, IsBaseObj)) = 2
    /\ Len(result) = 3

(***************************************************************************)
(* C3: identity on an empty patch.  When the patch is empty, None, or has  *)
(* no line that starts with "@@", apply_patch_to_content returns the lines *)
(* of the base in their order, all plain and none an added span.           *)
(***************************************************************************)
NoHunkLine(patch) ==
    \/ ~Truthy(patch)
    \/ \A k \in 1..Len(SplitLines(patch)) :
           ~StartsWith(SplitLines(patch)[k], <<"@", "@">>)

C3_IdentityOnEmptyPatch ==
    (ApplyDone /\ NoHunkLine(patch_string)) =>
        result = [k \in 1..Len(BaseArgLines) |->
                     [text |-> HtmlEscape(BaseArgLines[k]), span |-> "",
                      pr |-> NoneDict]]

\* an empty patch, and a patch of body lines with no header, on a base of two lines
C3_Witness ==
    /\ ApplyDone
    /\ patch_string \in {<<>>, JoinLines(<<LineAddX, LineDelA>>)}
    /\ Len(BaseArgLines) = 2
    /\ Len(result) = 2

(***************************************************************************)
(* C4: in apply_patch_to_content the index into the base stays within      *)
(* 0..len(base_lines) after every step, and base_lines is only subscripted *)
(* with indices 0..len(base_lines)-1.                                      *)
(***************************************************************************)
C4_IndexInRange ==
    fn = "apply" =>
        /\ current_base_line_idx \in 0..Len(base_lines)
        /\ reads \subseteq 0..(Len(base_lines) - 1)

\* a hunk that starts behind the end of the base was entered, and a "-" line is
\* met with the index at the end of the base
C4_Witness ==
    /\ fn = "apply" /\ pc = "body"
    /\ HeaderOldStart(hunk_sections[hunk_i][1]) - 1 > Len(base_lines)
    /\ current_base_line_idx = Len(base_lines)
    /\ StartsWith(hunk_body_line, <<"-">>)
    /\ body_i = 2

(***************************************************************************)
(* C5: merge ordering.  Added lines that stand side by side in the output  *)
(* of the merge (they share an insertion key) are in the ascending order   *)
(* of the numbers of their sources, whatever the order of the sources in   *)
(* the mapping; the two-source scenario gives p of "1", q of "2", then x.  *)
(***************************************************************************)
AddedObj(text, number) ==
    [text |-> text, type |-> "added",
     pr_info |-> [number |-> number, title |-> <<"T", "&", "l", "t", ";">>]]

C5_MergeOrdering ==
    MergeDone =>
        /\ \A n \in 1..(Len(result) - 1) :
               (IsAddedObj(result[n]) /\ IsAddedObj(result[n + 1])) =>
                   IntOf(result[n].pr_info.number) <= IntOf(result[n + 1].pr_info.number)
        /\ (/\ base_content_str = JoinLines(BaseX)
            /\ relevant_prs_data \in {<<Source1P, Source2Q>>, <<Source2Q, Source1P>>})
               => result = <<AddedObj(<<"p">>, <<"1">>), AddedObj(<<"q">>, <<"2">>),
                             [text |-> <<"x">>, type |-> "base", pr_info |-> NoneDict]>>

\* "10" was put into the mapping before "2", both insert at the key 0, and the
\* line of "2" stands before the line of "10"
C5_Witness ==
    /\ MergeDone
    /\ Len(relevant_prs_data) = 2
    /\ relevant_prs_data[1][1] = <<"1", "0">>
    /\ relevant_prs_data[2][1] = <<"2">>
    /\ Len(result) >= 3
    /\ result[1].type = "base"
    /\ result[2] = AddedObj(<<"x">>, <<"2">>)
    /\ result[3] = AddedObj(<<"x">>, <<"1", "0">>)

(***************************************************************************)
(* C6: sentinel key.  As claimed: every Added line of a hunk whose header  *)
(* has old_start = 0 stands before every base line in the output of the    *)
(* merge, so each source has at least as many added objects in front of    *)
(* the first base object as it has Added lines in such hunks.              *)
(***************************************************************************)
\* the objects in front of the first base object
SentinelPrefix(out) ==
    LET bases == {n \in 1..Len(out) : IsBaseObj(out[n])}
        first == IF bases = {} THEN Len(out) + 1
                 ELSE CHOOSE n \in bases : \A o \in bases : n <= o
    IN  SubSeq(out, 1, first - 1)

\* the Added lines <<old_start, lines consumed before, text>> of the k-th source
\* that satisfy Test
AddedWhere(mapping, k, Test(_)) ==
    CountIn(AddedOf(mapping[k][2].patch), Test)

C6_SentinelAnyBody ==
    MergeDone =>
        \A k \in 1..Len(relevant_prs_data) :
            EmittedOfSource(SentinelPrefix(result), relevant_prs_data[k][1])
                >= AddedWhere(relevant_prs_data, k, LAMBDA a : a[1] = 0)

(***************************************************************************)
(* C6 as amended: the Added lines of an old_start = 0 hunk that no Removed *)
(* or Context line precedes in their hunk are the added objects in front   *)
(* of the first base object, source by source.                             *)
(***************************************************************************)
C6_SentinelDirect ==
    MergeDone =>
        \A k \in 1..Len(relevant_prs_data) :
            EmittedOfSource(SentinelPrefix(result), relevant_prs_data[k][1])
                = AddedWhere(relevant_prs_data, k, LAMBDA a : a[1] = 0 /\ a[2] = 0)

\* two Added lines of an old_start = 0 hunk in front of a base of two lines
C6_Witness ==
    /\ MergeDone
    /\ base_content_str = JoinLines(SubSeq(BaseLinesAll, 1, 2))
    /\ relevant_prs_data
           = << << <<"2">>, PrData(JoinLines(<<HdrOld0, LineAddX, LineAddX>>)) >> >>
    /\ Len(SentinelPrefix(result)) = 2
    /\ Len(result) = 4

(***************************************************************************)
(* C7: length conservation.  For a patch whose hunks are consistent with   *)
(* the base (well-formed headers in ascending order that do not overlap,   *)
(* every "-" and " " line of a hunk on an existing base line) the output   *)
(* of apply_patch_to_content has len(base) minus the number of "-" lines   *)
(* plain lines.                                                            *)
(***************************************************************************)
Max(a, b) == IF a > b THEN a ELSE b

RECURSIVE ConsistentFrom(_, _, _, _, _)
\* pos: the base lines the hunks before line i reach over; open: inside a hunk
ConsistentFrom(lines, i, pos, open, len) ==
    IF i > Len(lines) THEN TRUE
    ELSE IF StartsWith(lines[i], <<"@", "@">>)
         THEN /\ HeaderMatches(lines[i])
              /\ Max(HeaderOldStart(lines[i]) - 1, 0) >= pos
              /\ ConsistentFrom(lines, i + 1, Max(HeaderOldStart(lines[i]) - 1, 0),
                                TRUE, len)
    ELSE IF open /\ StartsWithAny(lines[i], {<<"-">>, <<" ">>})
         THEN pos < len /\ ConsistentFrom(lines, i + 1, pos + 1, TRUE, len)
    ELSE ConsistentFrom(lines, i + 1, pos, open, len)

Consistent(patch, len) ==
    ~Truthy(patch) \/ ConsistentFrom(SplitLines(patch), 1, 0, FALSE, len)

\* the "-" lines that stand in a hunk
RemovedCount(patch) ==
    IF ~Truthy(patch) THEN 0
    ELSE LET lines == SplitLines(patch)
         IN  Cardinality({i \in 1..Len(lines) :
                 /\ StartsWith(lines[i], <<"-">>)
                 /\ \E h \in 1..(i - 1) : StartsWith(lines[h], <<"@", "@">>)})

C7_LengthConservation ==
    (ApplyDone /\ Consistent(patch_string, Len(BaseArgLines))) =>
        CountIn(result, IsPlain) = Len(BaseArgLines) - RemovedCount(patch_string)

\* two hunks in order, the first removes the first of three base lines
C7_Witness ==
    /\ ApplyDone
    /\ base_content_str = JoinLines(SubSeq(BaseLinesAll, 1, 3))
    /\ patch_string = JoinLines(<<HdrOld1, LineDelA, HdrOld2>>)
    /\ Consistent(patch_string, 3)
    /\ CountIn(result, IsPlain) = 2

(***************************************************************************)
(* C8: the hunk parser has no failure mode.  In both functions the hunks   *)
(* are the "@@" lines of the patch in their order; the loops stand on a    *)
(* hunk and a body line that exist; a hunk whose header is not well formed *)
(* is passed over with the output, the index, the insertions and the       *)
(* offset unchanged and its body not entered, the next hunk being the next *)
(* one of the patch; and at the end the added lines are those of the hunks *)
(* with a well-formed header (in the merge: the insertions collected).     *)
(***************************************************************************)
IsHunkLine(line) == StartsWith(line, <<"@", "@">>)
AtHunk == pc \in {"hunks", "mhunks"}
InHunks == pc \in {"hunks", "body", "mhunks", "mbody"}
AtBadHunk == AtHunk /\ ~HeaderMatches(hunk_sections[hunk_i][1])

\* the insertions collected so far
CollectedCount ==
    SumOver([k \in DOMAIN additions_map |-> Len(additions_map[k])],
            DOMAIN additions_map)

C8_HunksInOrder ==
    InHunks =>
        /\ hunk_sections # <<>>
        /\ [k \in 1..Len(hunk_sections) |-> hunk_sections[k][1]]
               = SelectSeq(SplitLines(patch_string), IsHunkLine)

\* the loops of the parser stand on a hunk and on a body line that exist
C8_ReadsInRange ==
    /\ AtHunk => hunk_i \in 1..Len(hunk_sections)
    /\ pc \in {"body", "mbody"} =>
           /\ hunk_i \in 1..Len(hunk_sections)
           /\ HeaderMatches(hunk_sections[hunk_i][1])
           /\ body_i \in 1..Len(hunk_sections[hunk_i][2])

C8_OnlyGoodHunksCount ==
    /\ (ApplyDone /\ ~NoHunkLine(patch_string)) =>
           CountIn(result, IsSpan) = Len(AddedOf(patch_string))
    /\ (fn = "merge" /\ pc \in {"emit", "done"}) =>
           CollectedCount = TotalAdded(relevant_prs_data)

C8_BadHunkDropped ==
    AtBadHunk =>
        /\ UNCHANGED <<patched_lines_html_result, current_base_line_idx,
                       additions_map, temp_base_line_offset_in_hunk, body_i>>
        /\ pc' \notin {"body", "mbody"}
        /\ hunk_i < Len(hunk_sections) => (pc' = pc /\ hunk_i' = hunk_i + 1)

C8_ParserNeverFails ==
    /\ [](C8_HunksInOrder /\ C8_ReadsInRange /\ C8_OnlyGoodHunksCount)
    /\ [][C8_BadHunkDropped]_vars

\* a hunk with a bad header and three body lines was dropped, the hunk after it was
\* walked: one added line, not two, in either function
C8_Witness ==
    /\ pc = "done"
    /\ \/ /\ fn = "apply"
          /\ patch_string = JoinLines(PatchBadThenGood)
          /\ CountIn(result, IsSpan) = 1
       \/ /\ fn = "merge"
          /\ relevant_prs_data = << <<<<"2">>, PrData(JoinLines(PatchBadThenGood))>> >>
          /\ CollectedCount = 1

(***************************************************************************)
(* C9: in apply_patch_to_content an Added line is emitted at the current   *)
(* position: it is appended to what was emitted so far, the index stays,   *)
(* and the output only ever grows at its end, so the base line at the      *)
(* index comes after it; base a, b, c with the hunk "@@ -2,1 +2,2 @@",     *)
(* " b", "+x" gives a, b, added x, c.                                      *)
(***************************************************************************)
Plain(text) == [text |-> text, span |-> "", pr |-> NoneDict]
AtBodyLine(prefix) ==
    fn = "apply" /\ pc = "body" /\ StartsWith(hunk_body_line, prefix)
IsPrefixOf(s, t) == Len(s) <= Len(t) /\ SubSeq(t, 1, Len(s)) = s

C9_RoundTripScenario ==
    (/\ ApplyDone
     /\ base_content_str = JoinLines(SubSeq(BaseLinesAll, 1, 3))
     /\ patch_string = JoinLines(PatchRoundTrip))
        => /\ Len(result) = 4
           /\ result[1] = Plain(<<"a">>) /\ result[2] = Plain(<<"b">>)
           /\ result[3].text = <<"x">> /\ IsSpan(result[3])
           /\ result[4] = Plain(<<"c">>)

C9_AddedStep ==
    /\ IsPrefixOf(patched_lines_html_result, patched_lines_html_result')
    /\ AtBodyLine(<<"+">>) =>
           /\ Len(patched_lines_html_result') = Len(patched_lines_html_result) + 1
           /\ IsSpan(patched_lines_html_result'[Len(patched_lines_html_result')])
           /\ patched_lines_html_result'[Len(patched_lines_html_result')].text
                  = HtmlEscape(Tail(hunk_body_line))
           /\ current_base_line_idx' = current_base_line_idx

C9_AddedAtCursor == []C9_RoundTripScenario /\ [][C9_AddedStep]_vars

\* the scenario with an annotation: the third line is the annotated span
C9_Witness ==
    /\ ApplyDone
    /\ base_content_str = JoinLines(SubSeq(BaseLinesAll, 1, 3))
    /\ patch_string = JoinLines(PatchRoundTrip)
    /\ Len(result) = 4
    /\ result[3].span = "added-line pr-annotated"

(***************************************************************************)
(* C10: in apply_patch_to_content a Removed line moves the index by one,   *)
(* not beyond len(base_lines), and emits nothing; base a, b, c with the    *)
(* hunk "@@ -1,2 +1,1 @@", "-a", " b" gives b, c.                          *)
(***************************************************************************)
C10_RemovalScenario ==
    (/\ ApplyDone
     /\ base_content_str = JoinLines(SubSeq(BaseLinesAll, 1, 3))
     /\ patch_string = JoinLines(PatchRemoval))
        => result = <<Plain(<<"b">>), Plain(<<"c">>)>>

C10_RemovedStep ==
    AtBodyLine(<<"-">>) =>
        /\ patched_lines_html_result' = patched_lines_html_result
        /\ current_base_line_idx'
               = IF current_base_line_idx + 1 <= Len(base_lines)
                 THEN current_base_line_idx + 1
                 ELSE Len(base_lines)

C10_RemovedConsumes == []C10_RemovalScenario /\ [][C10_RemovedStep]_vars

\* the scenario was run: the removed line a is not in the output
C10_Witness ==
    /\ ApplyDone
    /\ base_content_str = JoinLines(SubSeq(BaseLinesAll, 1, 3))
    /\ patch_string = JoinLines(PatchRemoval)
    /\ result = <<Plain(<<"b">>), Plain(<<"c">>)>>
    /\ \A n \in 1..Len(result) : result[n].text # <<"a">>

(***************************************************************************)
(* C11: apply_patch_to_content resynchronizes on a hunk that starts before *)
(* the index.  As stated: with old_start = 0 read as 1, a negative gap     *)
(* sets the index to max(old_start - 1, 0), so a hunk with old_start = 0   *)
(* met at an index above 0 moves it back to 0.  As the code has it: a      *)
(* negative gap with old_start > 0 sets the index to old_start - 1, a hunk *)
(* with old_start = 0 leaves the index where it is, and in both cases      *)
(* nothing is emitted and the walk goes on to the body or the next hunk.   *)
(***************************************************************************)
AtGoodHeader ==
    fn = "apply" /\ pc = "hunks" /\ HeaderMatches(hunk_sections[hunk_i][1])
OldStartHere == HeaderOldStart(hunk_sections[hunk_i][1])
\* the gap of the statement: old_start = 0 counts as 1
GapHere == (Max(OldStartHere, 1) - 1) - current_base_line_idx

C11_SnapStepAsStated ==
    (AtGoodHeader /\ GapHere < 0) =>
        current_base_line_idx' = Max(OldStartHere - 1, 0)

\* C11 as stated: the index goes to max(old_start - 1, 0), to 0 for old_start = 0
C11_SnapToMax == [][C11_SnapStepAsStated]_vars

C11_SnapStep ==
    (AtGoodHeader /\ GapHere < 0) =>
        /\ current_base_line_idx' =
               IF OldStartHere > 0 THEN OldStartHere - 1 ELSE current_base_line_idx
        /\ patched_lines_html_result' = patched_lines_html_result
        /\ pc' \in {"hunks", "body", "tail"}

\* C11 as the code has it: back to old_start - 1 for old_start > 0, no move for 0
C11_SnapUnlessSentinel == [][C11_SnapStep]_vars

\* the second hunk of the out-of-order patch moved the index from 2 back to 0
C11_Witness ==
    /\ fn = "apply" /\ pc = "body" /\ hunk_i = 2
    /\ base_content_str = JoinLines(SubSeq(BaseLinesAll, 1, 3))
    /\ patch_string = JoinLines(PatchOutOfOrder)
    /\ Len(patched_lines_html_result) = 3
    /\ current_base_line_idx = 0

(***************************************************************************)
(* C12: generate_interleaved_lines_for_all_prs carries the ids as they are *)
(* and has no error: whatever strings the keys of relevant_prs_data are,   *)
(* the call never ends in an exception.                                    *)
(***************************************************************************)
C12_NeverRaises == fn = "merge" => pc # "raised"

(***************************************************************************)
(* C13: the origin of an Added line in apply_patch_to_content.  As stated: *)
(* Added(annotation) when an annotation is supplied, and Base, the origin  *)
(* of an unchanged base line, when none is.  As the code has it: the       *)
(* "added-line pr-annotated" span with the number and the escaped title    *)
(* when pr_details_for_annotation is supplied, and the "added-line" span   *)
(* without them when it is not: never the unwrapped text of a base line.   *)
(***************************************************************************)
LastEmitted == patched_lines_html_result'[Len(patched_lines_html_result')]
Annotated == pr_details_for_annotation # NoneDict
EmitsAnnotated ==
    /\ LastEmitted.span = "added-line pr-annotated"
    /\ LastEmitted.pr.number = pr_details_for_annotation.number
    /\ LastEmitted.pr.title = HtmlEscape(pr_details_for_annotation.title)

C13_AddedStepAsStated ==
    AtBodyLine(<<"+">>) =>
        /\ Len(patched_lines_html_result') = Len(patched_lines_html_result) + 1
        /\ Annotated => EmitsAnnotated
        /\ ~Annotated => IsPlain(LastEmitted)

\* C13 as stated: without an annotation the added line has the origin Base
C13_AddedIsBaseWithoutAnnotation == [][C13_AddedStepAsStated]_vars

C13_AddedStep ==
    AtBodyLine(<<"+">>) =>
        /\ Len(patched_lines_html_result') = Len(patched_lines_html_result) + 1
        /\ Annotated => EmitsAnnotated
        /\ ~Annotated =>
               /\ LastEmitted.span = "added-line"
               /\ LastEmitted.pr = NoneDict
               /\ ~IsPlain(LastEmitted)

\* C13 as the code has it: without an annotation the added line is still marked
C13_AddedIsMarkedEitherWay == [][C13_AddedStep]_vars

\* the round trip without an annotation: the third line is a bare added-line span
C13_Witness ==
    /\ ApplyDone
    /\ pr_details_for_annotation = NoneDict
    /\ base_content_str = JoinLines(SubSeq(BaseLinesAll, 1, 3))
    /\ patch_string = JoinLines(PatchRoundTrip)
    /\ Len(result) = 4
    /\ result[3].span = "added-line"
    /\ result[2].span = ""

(***************************************************************************)
(* C14: apply_patch_to_content and generate_interleaved_lines_for_all_prs  *)
(* are pure and deterministic.  A call that ends has the outcome of every  *)
(* earlier call of the same function with equal arguments, whatever calls  *)
(* came in between; and a merge call starts its loop over the sources with *)
(* an empty additions_map: what an earlier call inserted is not in it.     *)
(***************************************************************************)
CallEnded == pc \in {"done", "raised"}

C14_PureAndDeterministic ==
    /\ (CallEnded /\ fn = "apply") =>
           \A c \in calls.apply :
               (/\ c.base = base_content_str
                /\ c.patch = patch_string
                /\ c.details = pr_details_for_annotation) => c.out = result
    /\ (CallEnded /\ fn = "merge") =>
           \A c \in calls.merge :
               (c.base = base_content_str /\ c.mapping = relevant_prs_data)
                   => (c.raised = MergeCall.raised /\ c.out = MergeCall.out)
    /\ (fn = "merge" /\ pc = "source" /\ pr_i = 1) => additions_map = EmptyMap

\* the third call is a merge that returned insertions, after an equal merge call and
\* after another call that left insertions of its own
C14_Witness ==
    /\ MergeDone
    /\ calls.n = 2
    /\ CountIn(result, IsAddedObj) > 0
    /\ \E c \in calls.merge :
           c.base = base_content_str /\ c.mapping = relevant_prs_data
    /\ \E c \in calls.merge :
           /\ c.mapping # relevant_prs_data
           /\ CountIn(c.out, IsAddedObj) > 0

(***************************************************************************)
(* C15: in generate_interleaved_lines_for_all_prs an Added line whose      *)
(* insertion_key is len(base_lines) or more is emitted nowhere.  Every     *)
(* line object is in the output as often as it is in the lists keyed -1 to *)
(* len(base_lines) - 1, so what is only keyed beyond them is not in it,    *)
(* neither after the last base line nor at the end; the output counts      *)
(* len(base_lines) lines plus those lists.                                 *)
(***************************************************************************)
KeysEmitted == {k \in DOMAIN additions_map : k >= -1 /\ k < Len(base_lines)}
KeysBeyond == {k \in DOMAIN additions_map : k >= Len(base_lines)}
Occurrences(seq, o) == Cardinality({n \in 1..Len(seq) : seq[n] = o})
CollectedObjs ==
    UNION {{additions_map[k][n] : n \in 1..Len(additions_map[k])}
           : k \in DOMAIN additions_map}

C15_KeysBeyondBaseDropped ==
    MergeDone =>
        /\ \A o \in CollectedObjs :
               Occurrences(result, o)
                   = SumOver([k \in KeysEmitted |-> Occurrences(additions_map[k], o)],
                             KeysEmitted)
        /\ Len(result)
               = Len(base_lines)
                     + SumOver([k \in KeysEmitted |-> Len(additions_map[k])], KeysEmitted)
        /\ (KeysEmitted = {} /\ base_lines # <<>>)
               => IsBaseObj(result[Len(result)])

\* a line was appended after the last line of a base that has lines (its key is
\* len(base_lines)), nothing else was inserted, and the output is the base alone
C15_Witness ==
    /\ MergeDone
    /\ base_lines # <<>>
    /\ Len(base_lines) \in DOMAIN additions_map
    /\ KeysEmitted = {}
    /\ Len(result) = Len(base_lines)

(***************************************************************************)
(* C16: the merge places insertions at their original offsets.  For one    *)
(* source whose patch is consistent with the base (hunks in order, every   *)
(* " " line the base line it stands on) and has only " " and "+" lines in  *)
(* its hunks, the texts of the output of the merge are the texts of the    *)
(* output of apply_patch_to_content for that patch, in the same order.     *)
(* Stated for the calls in which no insertion is keyed beyond the base, so *)
(* that a difference is one of place and not a line that was dropped.      *)
(***************************************************************************)
RECURSIVE TextsMatchFrom(_, _, _, _, _)
\* every " " and "-" line of a hunk is the base line it stands on
TextsMatchFrom(lines, i, pos, open, base) ==
    IF i > Len(lines) THEN TRUE
    ELSE IF StartsWith(lines[i], <<"@", "@">>)
         THEN TextsMatchFrom(lines, i + 1,
                             IF HeaderMatches(lines[i])
                             THEN Max(HeaderOldStart(lines[i]) - 1, 0) ELSE pos,
                             TRUE, base)
    ELSE IF open /\ StartsWithAny(lines[i], {<<"-">>, <<" ">>})
         THEN /\ pos < Len(base)
              /\ Tail(lines[i]) = base[pos + 1]
              /\ TextsMatchFrom(lines, i + 1, pos + 1, TRUE, base)
    ELSE TextsMatchFrom(lines, i + 1, pos, open, base)

ConsistentWith(patch, base) ==
    /\ Consistent(patch, Len(base))
    /\ ~Truthy(patch) \/ TextsMatchFrom(SplitLines(patch), 1, 0, FALSE, base)

OnlyContextAndAdded(patch) ==
    \A i \in 1..Len(SplitLines(patch)) :
        StartsWithAny(SplitLines(patch)[i], {<<"@", "@">>, <<" ">>, <<"+">>})

Texts(seq) == [k \in 1..Len(seq) |-> seq[k].text]

C16_MergeAsReconstruct ==
    (/\ MergeDone
     /\ Len(relevant_prs_data) = 1
     /\ Truthy(relevant_prs_data[1][2].patch)
     /\ ConsistentWith(relevant_prs_data[1][2].patch, BaseArgLines)
     /\ OnlyContextAndAdded(relevant_prs_data[1][2].patch)
     /\ KeysBeyond = {})
        => Texts(result)
               = Texts(ApplyOutput(base_content_str, relevant_prs_data[1][2].patch,
                                   NoneDict))

(***************************************************************************)
(* C17: the insertion_key of an Added line of the merge is old_start - 1   *)
(* plus the number of "-" and " " lines before it in its own hunk.  The    *)
(* offset is that number at every body line (it starts at 0 in each hunk); *)
(* a "+" line is appended to the list at that key and to no other and      *)
(* leaves the offset, as does a "\" line; the key is -1 exactly when       *)
(* old_start is 0 and no "-" or " " line precedes.                         *)
(***************************************************************************)
AtMergeBody == fn = "merge" /\ pc = "mbody"
BodyHere == hunk_sections[hunk_i][2]
ConsumedBefore ==
    Cardinality({k \in 1..(body_i - 1) : StartsWithAny(BodyHere[k], {<<"-">>, <<" ">>})})
ExpectedKey == (HeaderOldStart(hunk_sections[hunk_i][1]) - 1) + ConsumedBefore

C17_OffsetCountsHunkLines ==
    AtMergeBody => temp_base_line_offset_in_hunk = ConsumedBefore

C17_KeyStep ==
    AtMergeBody =>
        /\ StartsWith(hunk_body_line, <<"+">>) =>
               /\ ExpectedKey \in DOMAIN additions_map'
               /\ Len(additions_map'[ExpectedKey])
                      = Len(AdditionsAt(additions_map, ExpectedKey)) + 1
               /\ additions_map'[ExpectedKey][Len(additions_map'[ExpectedKey])].text
                      = HtmlEscape(Tail(hunk_body_line))
               /\ \A k \in DOMAIN additions_map' \ {ExpectedKey} :
                      k \in DOMAIN additions_map /\ additions_map'[k] = additions_map[k]
               /\ (ExpectedKey = -1)
                      <=> (HeaderOldStart(hunk_sections[hunk_i][1]) = 0
                              /\ ConsumedBefore = 0)
        /\ (StartsWithAny(hunk_body_line, {<<"+">>, <<"\\">>}) /\ pc' = "mbody"
                /\ hunk_i' = hunk_i)
               => temp_base_line_offset_in_hunk' = temp_base_line_offset_in_hunk

C17_InsertionKey == []C17_OffsetCountsHunkLines /\ [][C17_KeyStep]_vars

\* two hunks of one source: the first keys its line at 0 + 1, the second, which
\* starts one line further, keys its line at 1 + 0
C17_Witness ==
    /\ MergeDone
    /\ relevant_prs_data = <<SourceTwoHunks>>
    /\ DOMAIN additions_map = {1}
    /\ Len(additions_map[1]) = 2

(***************************************************************************)
(* C18: the layout of the output of the merge.  The insertions keyed -1    *)
(* come first; the base line i stands after them and after the base lines  *)
(* and the insertions keyed below i, the insertions keyed i follow it in    *)
(* the order of their list, and the base line i + 1 or the end follows     *)
(* them: an insertion keyed i, 0 <= i < len(base_lines), lies after the    *)
(* base line i and before the base line i + 1.                             *)
(***************************************************************************)
\* the place in the output of the base line with the 0-based index i
PlaceOfBase(i) ==
    Len(AdditionsAt(additions_map, -1)) + i + 1
        + SumOver([k \in 0..(i - 1) |-> Len(AdditionsAt(additions_map, k))], 0..(i - 1))

C18_MergeLayout ==
    MergeDone =>
        /\ \A n \in 1..Len(AdditionsAt(additions_map, -1)) :
               result[n] = additions_map[-1][n]
        /\ \A i \in 0..(Len(base_lines) - 1) :
               /\ PlaceOfBase(i) + Len(AdditionsAt(additions_map, i)) <= Len(result)
               /\ result[PlaceOfBase(i)] = BaseObj(base_lines[i + 1])
               /\ \A n \in 1..Len(AdditionsAt(additions_map, i)) :
                      result[PlaceOfBase(i) + n] = additions_map[i][n]
        /\ Len(result) = PlaceOfBase(Len(base_lines)) - 1

\* insertions keyed -1, 0 and 1 in a base of three lines
C18_Witness ==
    /\ MergeDone
    /\ Len(base_lines) = 3
    /\ DOMAIN additions_map = {-1, 0, 1}
    /\ Texts(result) = << <<"p">>, <<"a">>, <<"x">>, <<"b">>, <<"x">>, <<"c">> >>

(***************************************************************************)
(* C19: the insertions of the merge that share a key are in the order in   *)
(* which they were collected.  When the merge has returned,                *)
(* the list at each key is, source after source in the order the sources   *)
(* were walked, the Added lines of that key of the source's patch in the   *)
(* order of the patch (hunk after hunk, line after line); no other key has *)
(* a list; and the output has each list in that order.                     *)
(***************************************************************************)
KeyOf(added) == (added[1] - 1) + added[2]
\* the Added lines of the source id that are keyed k, in the order of its patch
ObjsOfSource(id, k) ==
    LET HasKey(added) == KeyOf(added) = k
        sel == SelectSeq(AddedOf(PrDataOf(relevant_prs_data, id).patch), HasKey)
    IN  [n \in 1..Len(sel) |-> AddedObj(HtmlEscape(sel[n][3]), id)]
RECURSIVE ObjsFromSource(_, _)
ObjsFromSource(j, k) ==
    IF j > Len(sorted_pr_numbers) THEN <<>>
    ELSE ObjsOfSource(sorted_pr_numbers[j], k) \o ObjsFromSource(j + 1, k)
KeysOfPatches ==
    UNION {{KeyOf(AddedOf(relevant_prs_data[j][2].patch)[n])
               : n \in 1..Len(AddedOf(relevant_prs_data[j][2].patch))}
           : j \in 1..Len(relevant_prs_data)}

C19_AccumulationOrder ==
    MergeDone =>
        /\ DOMAIN additions_map = KeysOfPatches
        /\ \A k \in DOMAIN additions_map : additions_map[k] = ObjsFromSource(1, k)
        /\ \A k \in KeysEmitted :
               \E at \in 1..Len(result) :
                   SubSeq(result, at, at + Len(additions_map[k]) - 1)
                       = ObjsFromSource(1, k)

\* "10" stands first in the mapping; the key 1 holds the line of the first hunk of
\* "2", the two lines of its second hunk, then the line of "10"
C19_Witness ==
    /\ MergeDone
    /\ relevant_prs_data = SourcesOneKey
    /\ additions_map[1] = <<AddedObj(<<"x">>, <<"2">>), AddedObj(<<"p">>, <<"2">>),
                            AddedObj(<<"q">>, <<"2">>), AddedObj(<<"x">>, <<"1", "0">>)>>

(***************************************************************************)
(* C20: for a patch consistent with the base (hunks in order and apart,    *)
(* every " " and "-" line the base line it stands on) the unmarked lines   *)
(* of the output of apply_patch_to_content are the base lines that no "-"  *)
(* line stands on, each once, in the order of the base.                    *)
(***************************************************************************)
RECURSIVE RemovedFrom(_, _, _, _)
\* the 0-based indices of the base lines the "-" lines of the hunks stand on
RemovedFrom(lines, i, pos, open) ==
    IF i > Len(lines) THEN {}
    ELSE IF StartsWith(lines[i], <<"@", "@">>)
         THEN RemovedFrom(lines, i + 1,
                          IF HeaderMatches(lines[i])
                          THEN Max(HeaderOldStart(lines[i]) - 1, 0) ELSE pos,
                          TRUE)
    ELSE IF open /\ StartsWith(lines[i], <<"-">>)
         THEN {pos} \cup RemovedFrom(lines, i + 1, pos + 1, TRUE)
    ELSE IF open /\ StartsWith(lines[i], <<" ">>)
         THEN RemovedFrom(lines, i + 1, pos + 1, TRUE)
    ELSE RemovedFrom(lines, i + 1, pos, open)

RemovedPositions(patch) ==
    IF Truthy(patch) THEN RemovedFrom(SplitLines(patch), 1, 0, FALSE) ELSE {}

RECURSIVE KeptFrom(_, _, _)
\* the base lines from the 0-based index i on whose index is not in removed
KeptFrom(base, i, removed) ==
    IF i >= Len(base) THEN <<>>
    ELSE (IF i \in removed THEN <<>> ELSE <<Plain(HtmlEscape(base[i + 1]))>>)
             \o KeptFrom(base, i + 1, removed)

C20_BaseLinesOfReconstruct ==
    (ApplyDone /\ ConsistentWith(patch_string, BaseArgLines)) =>
        SelectSeq(result, IsPlain)
            = KeptFrom(BaseArgLines, 0, RemovedPositions(patch_string))

\* the first of two base lines is removed and a line is added: of the base only the
\* second line is left, after the added line
C20_Witness ==
    /\ ApplyDone
    /\ base_content_str = JoinLines(SubSeq(BaseLinesAll, 1, 2))
    /\ patch_string = JoinLines(<<HdrOld1, LineDelA, LineAddX>>)
    /\ Len(result) = 2
    /\ IsSpan(result[1])
    /\ SelectSeq(result, IsPlain) = <<Plain(<<"b">>)>>
(***************************************************************************)
(* C21: in apply_patch_to_content a Context line appends its own escaped   *)
(* text as a plain (Base) line, whatever the base line at the index is and *)
(* also when the index is already len(base_lines); the index moves by      *)
(* exactly one when it is below len(base_lines) and stays otherwise.       *)
(***************************************************************************)
PatchTwoContext == <<HdrOld1, LineCtxB, LineCtxB>>

C21_ContextStep ==
    AtBodyLine(<<" ">>) =>
        /\ patched_lines_html_result'
               = Append(patched_lines_html_result,
                        Plain(HtmlEscape(Tail(hunk_body_line))))
        /\ current_base_line_idx'
               = IF current_base_line_idx < Len(base_lines)
                 THEN current_base_line_idx + 1
                 ELSE current_base_line_idx

C21_ContextEmitsOwnText == [][C21_ContextStep]_vars

\* base a with two Context lines b: the first differs from the base line at
\* the index, the second is met with the index at len(base_lines)
C21_Witness ==
    /\ ApplyDone
    /\ base_content_str = JoinLines(SubSeq(BaseLinesAll, 1, 1))
    /\ patch_string = JoinLines(PatchTwoContext)
    /\ result = <<Plain(<<"b">>), Plain(<<"b">>)>>
    /\ current_base_line_idx = 1

(***************************************************************************)
(* C22: the frame of the walk over a hunk body in apply_patch_to_content:  *)
(* an Added line and a "\ No newline" line leave the index as it is, a     *)
(* Removed line and a "\ No newline" line leave the output as it is, and   *)
(* no body line moves the index back.                                      *)
(***************************************************************************)
C22_FrameStep ==
    (fn = "apply" /\ pc = "body") =>
        /\ (AtBodyLine(<<"+">>) \/ AtBodyLine(<<"\\">>)) =>
               current_base_line_idx' = current_base_line_idx
        /\ (AtBodyLine(<<"-">>) \/ AtBodyLine(<<"\\">>)) =>
               patched_lines_html_result' = patched_lines_html_result
        /\ current_base_line_idx' >= current_base_line_idx

C22_BodyFrame == [][C22_FrameStep]_vars

\* base a, b, c with "+x", "-a", "\ No newline" in one hunk: one span, then
\* b and c; the index moved once, for the Removed line
C22_Witness ==
    /\ ApplyDone
    /\ base_content_str = JoinLines(SubSeq(BaseLinesAll, 1, 3))
    /\ patch_string = JoinLines(PatchAllKinds)
    /\ Len(result) = 3 /\ IsSpan(result[1])
    /\ result[2] = Plain(<<"b">>) /\ result[3] = Plain(<<"c">>)
    /\ current_base_line_idx = 1

(***************************************************************************)
(* C23: when apply_patch_to_content returns, its output ends with the      *)
(* base lines from the final index to the end of the base, in order and as *)
(* plain (Base) lines: no base line at or after the final index is lost.   *)
(***************************************************************************)
C23_TailCopied ==
    ApplyDone =>
        LET n == Len(BaseArgLines) - current_base_line_idx
        IN  /\ n >= 0
            /\ Len(result) >= n
            /\ \A k \in 1..n :
                   result[Len(result) - n + k]
                       = Plain(HtmlEscape(BaseArgLines[current_base_line_idx + k]))

\* base a, b, c and one Removed line: the index ends at 1 and b, c close the output
C23_Witness ==
    /\ ApplyDone
    /\ base_content_str = JoinLines(SubSeq(BaseLinesAll, 1, 3))
    /\ patch_string = JoinLines(<<HdrOld1, LineAddX, LineDelA>>)
    /\ current_base_line_idx = 1
    /\ Len(result) = 3
    /\ SubSeq(result, 2, 3) = <<Plain(<<"b">>), Plain(<<"c">>)>>

(***************************************************************************)
(* C24: the sectioning of a patch into hunks in apply_patch_to_content and *)
(* the one in generate_interleaved_lines_for_all_prs are the same parser:  *)
(* whichever function parsed the patch, its hunk_sections are what the     *)
(* other function's sectioning gives for that text, and in both the body   *)
(* of a hunk is walked exactly when its header matches.                    *)
(***************************************************************************)
Parsed ==
    \/ fn = "apply" /\ pc # "call" /\ Truthy(patch_string)
    \/ fn = "merge" /\ pc \in {"mhunks", "mbody"}

C24_SameSections ==
    Parsed => /\ hunk_sections = ApplyHunkSections(patch_string)
              /\ hunk_sections = MergeHunkSections(patch_string)

C24_SameHunksWalked ==
    AtHunk =>
        ((pc' \in {"body", "mbody"})
            <=> (/\ HeaderMatches(hunk_sections[hunk_i][1])
                 /\ hunk_sections[hunk_i][2] # <<>>))

C24_OneParser == []C24_SameSections /\ [][C24_SameHunksWalked]_vars

\* both functions have sectioned the patch with a bad header before a good one,
\* an Added line before the first "@@" line aside: two hunks, the first not matching
C24_WitnessPatch == <<LineAddX, HdrBad, HdrOld1>>
C24_Witness ==
    /\ fn = "apply" /\ pc = "hunks" /\ hunk_i = 2
    /\ patch_string = JoinLines(C24_WitnessPatch)
    /\ hunk_sections = <<<<HdrBad, <<>>>>, <<HdrOld1, <<>>>>>>
    /\ MergeHunkSections(patch_string) = hunk_sections

(***************************************************************************)
(* C25: the parser keeps a line in a hunk body only when a hunk is open    *)
(* and the line begins with "+", "-", " " or "\": the parsed hunks, laid   *)
(* out as header, body lines, header, ..., are the "@@" lines and the      *)
(* accepted lines after the first "@@" line, in the order of the patch.    *)
(* Every other line is dropped: the walk never stands on one, and the      *)
(* output of apply_patch_to_content is the output for the patch without    *)
(* the dropped lines.                                                      *)
(***************************************************************************)
IsAccepted(line) == StartsWithAny(line, {<<"+">>, <<"-">>, <<" ">>, <<"\\">>})

RECURSIVE KeptFromLine(_, _, _)
KeptFromLine(lines, i, open) ==
    IF i > Len(lines) THEN <<>>
    ELSE IF IsHunkLine(lines[i]) THEN <<lines[i]>> \o KeptFromLine(lines, i + 1, TRUE)
    ELSE IF open /\ IsAccepted(lines[i])
         THEN <<lines[i]>> \o KeptFromLine(lines, i + 1, open)
    ELSE KeptFromLine(lines, i + 1, open)

KeptLines(patch) == KeptFromLine(SplitLines(patch), 1, FALSE)

RECURSIVE Flatten(_, _)
Flatten(sections, h) ==
    IF h > Len(sections) THEN <<>>
    ELSE <<sections[h][1]>> \o sections[h][2] \o Flatten(sections, h + 1)

C25_OnlyAcceptedLines ==
    /\ Parsed => Flatten(hunk_sections, 1) = KeptLines(patch_string)
    /\ pc \in {"body", "mbody"} => IsAccepted(hunk_sections[hunk_i][2][body_i])
    /\ (ApplyDone /\ Truthy(patch_string)) =>
           result = ApplyOutput(base_content_str, JoinLines(KeptLines(patch_string)),
                                pr_details_for_annotation)

\* an Added line before the first "@@" line and a "diff" line in the hunk: both
\* dropped, the hunk has no body and the base comes back as it is
C25_WitnessPatch == <<LineAddX, HdrOld1, LineDiff>>
C25_Witness ==
    /\ ApplyDone
    /\ base_content_str = JoinLines(SubSeq(BaseLinesAll, 1, 3))
    /\ patch_string = JoinLines(C25_WitnessPatch)
    /\ hunk_sections = <<<<HdrOld1, <<>>>>>>
    /\ result = <<Plain(<<"a">>), Plain(<<"b">>), Plain(<<"c">>)>>

(***************************************************************************)
(* C26: in generate_interleaved_lines_for_all_prs a source whose patch is  *)
(* None, empty or without a "@@" line contributes no line, and the calls   *)
(* that return give, for one base, the same output whenever the mappings   *)
(* have the same other sources: such a source moves no insertion of        *)
(* another source.  When every source is such, or the mapping is empty,    *)
(* the output is the base lines as base lines.                             *)
(***************************************************************************)
HasHunkLine(patch) ==
    \E n \in 1..Len(SplitLines(patch)) : IsHunkLine(SplitLines(patch)[n])
Contributes(source) == Truthy(source[2].patch) /\ HasHunkLine(source[2].patch)
Contributing(mapping) ==
    {mapping[j] : j \in {i \in 1..Len(mapping) : Contributes(mapping[i])}}
BaseObjsOf(base) ==
    [n \in 1..Len(SplitLines(BaseOrEmpty(base)))
        |-> BaseObj(SplitLines(BaseOrEmpty(base))[n])]

C26_SourcesWithoutHunk ==
    MergeDone =>
        /\ \A n \in 1..Len(result) :
               IsAddedObj(result[n]) =>
                   \E src \in Contributing(relevant_prs_data) :
                       src[1] = result[n].pr_info.number
        /\ \A c \in calls.merge :
               (/\ ~c.raised
                /\ c.base = base_content_str
                /\ Contributing(c.mapping) = Contributing(relevant_prs_data))
                   => c.out = result
        /\ Contributing(relevant_prs_data) = {} => result = BaseObjsOf(base_content_str)

\* the sources "10" and "1" were merged without and then with a source "2" that has
\* no hunk, put between them: twice p of "1", q of "10", then the base
C26_Witness ==
    /\ MergeDone
    /\ Len(relevant_prs_data) = 3
    /\ relevant_prs_data[2][1] = <<"2">>
    /\ ~Contributes(relevant_prs_data[2])
    /\ Texts(result) = << <<"p">>, <<"q">>, <<"a">>, <<"b">>, <<"c">> >>
    /\ \E c \in calls.merge :
           /\ c.mapping = <<relevant_prs_data[1], relevant_prs_data[3]>>
           /\ c.base = base_content_str
           /\ c.out = result

(***************************************************************************)
(* C27: get_pull_requests caches whatever it returns, the empty list after *)
(* a failed fetch included.  The fetch ends by writing the list it returns *)
(* to the cache file; a call that finds the cache file returns its content *)
(* and issues no request; so, while the file exists, it holds what the     *)
(* last call for that state returned, every later call returns the same,   *)
(* and pages are only requested while there is no cache file.              *)
(***************************************************************************)
PullsPaths == {GetCachePath("pulls_meta", st) : st \in PullStates}

C27_CacheIsLastReturn ==
    /\ api_pc \in {"page", "save"} =>
           /\ api_call.fn = "get_pull_requests"
           /\ cache_files[api_call.path] = PyNone
    /\ api_pc = "idle" =>
           \A path \in PullsPaths :
               cache_files[path] # PyNone =>
                   pulls_returned[path] = [called |-> TRUE, value |-> cache_files[path]]

C27_CallStep ==
    /\ (api_pc = "idle" /\ api_call'.fn = "get_pull_requests"
            /\ cache_files[api_call'.path] # PyNone) =>
           /\ api_pc' = "idle"
           /\ returned' = cache_files[api_call'.path]
           /\ requests_made' = 0
           /\ cache_files' = cache_files
           /\ pulls_returned[api_call'.path].called =>
                  returned' = pulls_returned[api_call'.path].value
    /\ api_pc = "save" =>
           /\ returned' = Val(all_pull_requests)
           /\ page_log'.written => cache_files'[api_call.path] = returned'
           /\ ~page_log'.written => cache_files' = cache_files

C27_FailureIsCached == []C27_CacheIsLastReturn /\ [][C27_CallStep]_vars

\* the fetch for "open" failed on its second page and the empty list was written;
\* the call after it returned the empty list from the file, with no request
C27_Witness ==
    /\ api_pc = "idle"
    /\ api_call = [fn |-> "get_pull_requests", path |-> GetCachePath("pulls_meta", "open")]
    /\ page_log = [path |-> api_call.path, outcomes |-> <<"ok_next", "http_error">>,
                   written |-> TRUE]
    /\ cache_files[api_call.path] = Val(<<>>)
    /\ returned = Val(<<>>)
    /\ requests_made = 0

(***************************************************************************)
(* C28: get_pull_requests is all-or-nothing over the pages.  It requests   *)
(* page after page while the page has data and a next link, and stops at   *)
(* the first page without a next link or without data; it then returns the *)
(* pages with data, in order.  If a page fails (HTTP error, request error  *)
(* or JSON decode error) it returns the empty list: never a partial list.  *)
(***************************************************************************)
Pages(n) == [k \in 1..n |-> k]

\* what the fetch returns for the outcomes of its pages
ExpectedPulls(outcomes) ==
    LET n == Len(outcomes)
    IN  IF outcomes[n] \in PageErrors THEN <<>>
        ELSE IF outcomes[n] = "ok_last" THEN Pages(n)
        ELSE Pages(n - 1)

C28_AllOrNothing ==
    LET outcomes == page_log.outcomes
        n == Len(outcomes)
    IN  /\ api_pc = "page" =>
               /\ \A k \in 1..n : outcomes[k] = "ok_next"
               /\ page_num = n + 1
               /\ requests_made = n
               /\ all_pull_requests = Pages(n)
        /\ api_pc = "save" =>
               /\ n >= 1 /\ requests_made = n
               /\ \A k \in 1..(n - 1) : outcomes[k] = "ok_next"
               /\ outcomes[n] # "ok_next"
               /\ all_pull_requests = ExpectedPulls(outcomes)
        /\ (api_pc = "idle" /\ api_call.fn = "get_pull_requests" /\ requests_made > 0) =>
               /\ page_log.path = api_call.path
               /\ returned = Val(ExpectedPulls(outcomes))
               /\ (\E k \in 1..n : outcomes[k] \in PageErrors) => returned = Val(<<>>)

\* two pages were fetched, the third request failed: the empty list was returned
C28_Witness ==
    /\ api_pc = "idle"
    /\ api_call.fn = "get_pull_requests"
    /\ requests_made = 3
    /\ page_log.outcomes = <<"ok_next", "ok_next", "json_error">>
    /\ returned = Val(<<>>)

(***************************************************************************)
(* C29: get_repo_contents, get_file_blob_content and                       *)
(* get_pull_request_files write the cache only after a request that gave   *)
(* data: a call that changes a cache file has issued a request and returns *)
(* what it wrote; a call that returns None leaves the cache as it was; a   *)
(* call that finds no truthy cached value issues a request (so a failure   *)
(* is tried again); and a call that finds a truthy cached value returns    *)
(* it, issues no request and leaves the cache as it was.                   *)
(***************************************************************************)
SimpleMethods == {"get_repo_contents", "get_file_blob_content", "get_pull_request_files"}

C29_SimpleCallStep ==
    (api_pc = "idle" /\ api_call'.fn \in SimpleMethods) =>
        LET path == api_call'.path
        IN  /\ api_pc' = "idle"
            /\ \A other \in CachePaths \ {path} : cache_files'[other] = cache_files[other]
            /\ IF TruthyVal(cache_files[path])
               THEN /\ returned' = cache_files[path]
                    /\ requests_made' = 0
                    /\ cache_files' = cache_files
               ELSE /\ requests_made' = 1
                    /\ returned' = PyNone => cache_files' = cache_files
                    /\ cache_files' # cache_files =>
                           /\ cache_files'[path] = returned'
                           /\ returned'.some
                           /\ api_call'.fn # "get_file_blob_content" => TruthyVal(returned')

C29_PathsOfMethods ==
    api_call.fn \in SimpleMethods =>
        api_call.path[1] = (CASE api_call.fn = "get_repo_contents" -> "contents_metadata"
                              [] api_call.fn = "get_file_blob_content" -> "file_content_blob"
                              [] OTHER -> "pull_files_detail")

C29_CacheOnlyData == []C29_PathsOfMethods /\ [][C29_SimpleCallStep]_vars

\* the files of the pull request were cached and a later call returned them from the
\* cache with no request; the directory has no cache file and the blob of an empty
\* file is cached as no bytes
C29_Witness ==
    /\ api_call.fn = "get_pull_request_files"
    /\ requests_made = 0
    /\ returned = Val(<<1>>)
    /\ cache_files[api_call.path] = Val(<<1>>)
    /\ cache_files[GetCachePath("contents_metadata", "")] = PyNone
    /\ cache_files[GetCachePath("file_content_blob", "sha")] = Val(<<>>)

(***************************************************************************)
(* C30: in process_pull_request_files a PR detail file is processed also   *)
(* when the summary has no entry for it.  When the function has ended,     *)
(* the directory of the summary file being there, every detail file with   *)
(* a numeric name and a JSON content whose PR has no entry in the summary  *)
(* map has an entry in the category "no_label", with an empty url and an   *)
(* empty body.                                                             *)
(***************************************************************************)
PrNumberOf(file) == IntOf(SubSeq(file.name, 1, Len(file.name) - 5))

C30_NoSummaryStillProcessed ==
    (c_pc = "done" /\ summary_file.kind # "no_dir") =>
        \A k \in 1..Len(detail_dir) :
            (/\ IsPrNumberFile(detail_dir[k].name)
             /\ detail_dir[k].ok
             /\ PrNumberOf(detail_dir[k]) \notin DOMAIN pr_summaries_map)
                => /\ NoLabel \in DOMAIN categorized_prs
                   /\ \E n \in 1..Len(categorized_prs[NoLabel]) :
                          LET e == categorized_prs[NoLabel][n]
                          IN  /\ e.pr_number = PrNumberOf(detail_dir[k])
                              /\ e.url = "" /\ e.body = ""

====
